---- MODULE Spec2Model ----
(***************************************************************************)
(* Family-Tree: the GEDCOM parser's graph linker and the family data store *)
(* (src/js/timeline.js + src/js/family-data.js, and the TypeScript port in *)
(* src/src/utils/gedcom-parser.ts).  Both variants are modelled; the       *)
(* variable `variant` says which one a behaviour runs.                     *)
(***************************************************************************)
EXTENDS Naturals, Integers, Sequences, FiniteSets, TLC

VARIABLES
    variant,   \* "js" (timeline.js / family-data.js) or "ts" (gedcom-parser.ts)
    file,      \* the uploaded text, as its level-0 records and their pointer lines
    parsed,    \* the object returned by GedcomParser.parse (ParsedGedcomData)
    store,     \* the FamilyDataStore instance
    pc,        \* position of the parse/load script
    nloads,    \* number of loadFromGedcom calls made so far
    parser,    \* the GedcomParser instance and the position of its line loop
    tasks,     \* the upload tasks (processFile / processGedcomFile invocations)
    last,      \* history: the most recent successful load or clear
    before,    \* history: the store as it was before the most recent load attempt
    outcome,   \* history: how the most recent load attempt ended
    observed,  \* what the most recent store query returned
    trav,      \* the running getAncestors / getDescendants call
    rel,       \* the most recent calculateRelationship call and its result
    call       \* the most recent call of a stateless helper: its input and its result

linkVars == <<file, parsed, pc, nloads, parser>>
flowVars == <<tasks, last, before, outcome, observed>>
queryVars == <<trav, rel, call>>
vars == <<variant, store, linkVars, flowVars, queryVars>>

-----------------------------------------------------------------------------
(* Bounds of the model *)

MaxChil == 2      \* CHIL lines per family record
MaxLoads == 2     \* loadFromGedcom calls on one parse result
MaxUploads == 2   \* upload tasks that can be in flight together
MaxEdges == 2     \* entries of one parents / children list of a drawn graph
MaxGenArg == 2    \* largest small maxGenerations argument passed explicitly
MaxBody == 3      \* lines drawn for the body of the first record of a text
MaxPath == 7      \* steps of a path drawn with its steps in every order
MaxSteps == 6     \* parent steps, and child steps, of a longer path drawn in one order
MaxNoteBody == 3  \* lines drawn for the body of an individual that carries notes
MaxOrphans == 2  \* lines drawn before the first level-0 line of a text
DagSize == 5      \* persons of a store whose parent edges lead to later persons
MaxDeepArg == 3   \* largest maxGenerations passed to a traversal of such a store

\* getAncestors(personId, maxGenerations = 10)
DefaultMaxGenerations == 10

\* persons of the long chain: deeper than the default bound by two
ChainLen == DefaultMaxGenerations + 2

-----------------------------------------------------------------------------
(* Values *)

None == "none"                       \* undefined / null
Variants == {"js", "ts"}
IndiKeys == {"I1", "I2", "I3"}
FamKeys == {"F1", "F2"}
AllKeys == IndiKeys \cup FamKeys \cup {"I4", "I5", "S1", "M1", "N1", "N2"}

\* `@${id}@`
AddAt(k) == "@" \o k \o "@"

\* String(v).startsWith('@')
StartsWithAt(v) == \E k \in AllKeys : v = AddAt(k)

\* String(v).replace(/@/g, '')
StripAt(v) == IF StartsWithAt(v) THEN CHOOSE k \in AllKeys : v = AddAt(k) ELSE v

\* String(v).startsWith('@') ? v : `@${v}@`
NormId(v) == IF StartsWithAt(v) THEN v ELSE AddAt(v)

RECURSIVE SeqsUpTo(_, _)
SeqsUpTo(S, n) ==
    IF n = 0 THEN {<<>>}
    ELSE LET shorter == SeqsUpTo(S, n - 1)
         IN  shorter \cup {Append(s, x) : s \in shorter, x \in S}

Range(s) == {s[i] : i \in DOMAIN s}

Includes(s, x) == \E i \in DOMAIN s : s[i] = x

NoDuplicates(s) == \A i, j \in DOMAIN s : s[i] = s[j] => i = j

RECURSIVE SelectKeys(_, _)
\* the elements of s that are in S, in order: array.filter
SelectKeys(s, S) ==
    IF s = <<>> THEN <<>>
    ELSE IF Head(s) \in S THEN <<Head(s)>> \o SelectKeys(Tail(s), S)
         ELSE SelectKeys(Tail(s), S)

-----------------------------------------------------------------------------
(* JavaScript Map: insertion-ordered, set() on a present key keeps its place *)

EmptyMap == <<>>

MapHas(m, k) == \E i \in DOMAIN m : m[i].key = k

MapGet(m, k) == m[CHOOSE i \in DOMAIN m : m[i].key = k].val

MapSet(m, k, v) ==
    IF MapHas(m, k)
    THEN [i \in DOMAIN m |-> IF m[i].key = k THEN [key |-> k, val |-> v] ELSE m[i]]
    ELSE Append(m, [key |-> k, val |-> v])

MapKeys(m) == {m[i].key : i \in DOMAIN m}

-----------------------------------------------------------------------------
(* The parser's record maps after the line loop *)

\* the xref captured by parseLine: js keeps the @s, ts strips them
ParseXref(v, x) == IF v = "js" THEN x ELSE StripAt(x)

RECURSIVE SaveRecords(_, _, _)
\* saveCurrentRecord over the level-0 records of one type, in file order
SaveRecords(v, recs, m) ==
    IF recs = <<>> THEN m
    ELSE SaveRecords(v, Tail(recs), MapSet(m, ParseXref(v, Head(recs).xref), Head(recs)))

-----------------------------------------------------------------------------
(* Record-to-entity conversion and graph linking *)

\* SEX value M -> male, F -> female, anything else -> unknown
Gender(sex) == IF sex = "M" THEN "male" ELSE IF sex = "F" THEN "female" ELSE "unknown"

\* formatEventData (js) / extractEvent (ts): no event tag, no event
FormatEvent(ev) == IF ev = None THEN None ELSE ev

NewPerson(id, sex) ==
    [id |-> id, gender |-> Gender(sex), parents |-> <<>>, spouses |-> <<>>, children |-> <<>>]

SpouseEntry(id, marriage, divorce) ==
    [person |-> id, marriage |-> marriage, divorce |-> divorce]

\* people in insertion order of the individuals map, read through the id -> person map
PeopleList(order, pm) == [i \in DOMAIN order |-> pm[order[i]]]

(* ---- js: GedcomParser.buildFamilyTree ---- *)

\* husband.spouses.push(...); wife.spouses.push(...)
JsLinkSpouses(pm, h, w, marr, div) ==
    [pm EXCEPT ![h].spouses = Append(@, SpouseEntry(w, FormatEvent(marr), FormatEvent(div))),
               ![w].spouses = Append(@, SpouseEntry(h, FormatEvent(marr), FormatEvent(div)))]

\* the body of children.forEach(child => ...)
JsLinkChild(pm, c, h, w) ==
    LET pm1 == IF h # None
               THEN [pm EXCEPT ![c].parents = Append(@, h), ![h].children = Append(@, c)]
               ELSE pm
    IN  IF w # None
        THEN [pm1 EXCEPT ![c].parents = Append(@, w), ![w].children = Append(@, c)]
        ELSE pm1

RECURSIVE JsLinkChildren(_, _, _, _)
JsLinkChildren(pm, kids, h, w) ==
    IF kids = <<>> THEN pm
    ELSE JsLinkChildren(JsLinkChild(pm, Head(kids), h, w), Tail(kids), h, w)

\* one iteration of this.families.forEach((famData, famId) => ...)
JsLinkFamily(pm, fam) ==
    LET h == IF fam.husb # None /\ fam.husb \in DOMAIN pm THEN fam.husb ELSE None
        w == IF fam.wife # None /\ fam.wife \in DOMAIN pm THEN fam.wife ELSE None
        kids == SelectKeys(fam.chil, DOMAIN pm)
        pm1 == IF h # None /\ w # None THEN JsLinkSpouses(pm, h, w, fam.marr, fam.div) ELSE pm
    IN  JsLinkChildren(pm1, kids, h, w)

RECURSIVE JsLinkFamilies(_, _)
JsLinkFamilies(pm, fams) ==
    IF fams = <<>> THEN pm
    ELSE JsLinkFamilies(JsLinkFamily(pm, Head(fams).val), Tail(fams))

JsFamilyLink(famId, fam) ==
    [id |-> famId, husband |-> fam.husb, wife |-> fam.wife, children |-> fam.chil,
     marriage |-> FormatEvent(fam.marr), divorce |-> FormatEvent(fam.div)]

JsBuildFamilyTree(individuals, families, sources, media) ==
    LET order == [i \in DOMAIN individuals |-> individuals[i].key]
        pm0 == [id \in MapKeys(individuals) |-> NewPerson(id, MapGet(individuals, id).sex)]
        pm == JsLinkFamilies(pm0, families)
    IN  [people |-> PeopleList(order, pm),
         families |-> [i \in DOMAIN families |-> JsFamilyLink(families[i].key, families[i].val)],
         sources |-> [i \in DOMAIN sources |-> sources[i].key],
         media |-> [i \in DOMAIN media |-> media[i].key]]

(* ---- ts: GedcomParser.convertToStructuredData ---- *)

RECURSIVE TsSpouses(_, _, _)
\* the FAMS loop of convertIndividual
TsSpouses(pid, famIds, families) ==
    IF famIds = <<>> THEN <<>>
    ELSE LET k == StripAt(Head(famIds))
             rest == TsSpouses(pid, Tail(famIds), families)
         IN  IF ~MapHas(families, k) THEN rest
             ELSE LET fam == MapGet(families, k)
                      husbandId == IF fam.husb # None THEN NormId(fam.husb) ELSE None
                      wifeId == IF fam.wife # None THEN NormId(fam.wife) ELSE None
                      spouseId == IF husbandId = pid THEN wifeId ELSE husbandId
                  IN  IF spouseId # None
                      THEN <<SpouseEntry(spouseId, FormatEvent(fam.marr), None)>> \o rest
                      ELSE rest

RECURSIVE TsParents(_, _)
\* the FAMC loop of convertIndividual
TsParents(famIds, families) ==
    IF famIds = <<>> THEN <<>>
    ELSE LET k == StripAt(Head(famIds))
             rest == TsParents(Tail(famIds), families)
         IN  IF ~MapHas(families, k) THEN rest
             ELSE LET fam == MapGet(families, k)
                  IN  (IF fam.husb # None THEN <<NormId(fam.husb)>> ELSE <<>>)
                      \o (IF fam.wife # None THEN <<NormId(fam.wife)>> ELSE <<>>)
                      \o rest

TsConvertIndividual(rec, key, families) ==
    [NewPerson(AddAt(key), rec.sex) EXCEPT
        !.spouses = TsSpouses(AddAt(key), rec.fams, families),
        !.parents = TsParents(rec.famc, families)]

TsConvertFamily(rec, key) ==
    [id |-> AddAt(key),
     husband |-> IF rec.husb # None THEN NormId(rec.husb) ELSE None,
     wife |-> IF rec.wife # None THEN NormId(rec.wife) ELSE None,
     children |-> [i \in DOMAIN rec.chil |-> NormId(rec.chil[i])],
     marriage |-> FormatEvent(rec.marr), divorce |-> FormatEvent(rec.div)]

TsConvertToStructuredData(individuals, families, sources, media) ==
    [people |-> [i \in DOMAIN individuals |->
                    TsConvertIndividual(individuals[i].val, individuals[i].key, families)],
     families |-> [i \in DOMAIN families |-> TsConvertFamily(families[i].val, families[i].key)],
     sources |-> [i \in DOMAIN sources |-> AddAt(sources[i].key)],
     media |-> [i \in DOMAIN media |-> AddAt(media[i].key)]]

(* ---- GedcomParser.parse, from the saved records on ---- *)

ParseFile(v, f) ==
    LET individuals == SaveRecords(v, f.indi, EmptyMap)
        families == SaveRecords(v, f.fam, EmptyMap)
        sources == SaveRecords(v, f.sour, EmptyMap)
        media == SaveRecords(v, f.obje, EmptyMap)
    IN  IF v = "js" THEN JsBuildFamilyTree(individuals, families, sources, media)
        ELSE TsConvertToStructuredData(individuals, families, sources, media)

-----------------------------------------------------------------------------
(* FamilyDataStore *)

EmptyPeopleMap == [id \in {} |-> None]

\* the store after construction
EmptyStore ==
    [people |-> <<>>, families |-> <<>>, sources |-> <<>>, media |-> <<>>,
     peopleMap |-> EmptyPeopleMap, isLoaded |-> FALSE]

\* a null entry of a people array
NullPerson == [NewPerson("null", None) EXCEPT !.gender = None]

IsNull(p) == p.id = "null"

\* p => [p.id, p] throws a TypeError on a null entry
MapThrows(people) == \E i \in DOMAIN people : IsNull(people[i])

LastIndexOf(people, id) ==
    CHOOSE i \in DOMAIN people :
        people[i].id = id /\ \A j \in DOMAIN people : people[j].id = id => j <= i

\* new Map(this.people.map(p => [p.id, p])): a later entry with the same id wins
NewPeopleMap(people) ==
    [id \in {people[i].id : i \in DOMAIN people} |-> people[LastIndexOf(people, id)]]

RECURSIVE TsPushChildren(_, _, _)
\* family.children.forEach(childId => { if (!p.children.includes(childId)) p.children.push(childId) })
TsPushChildren(pm, p, kids) ==
    IF kids = <<>> THEN pm
    ELSE LET c == Head(kids)
             pm1 == IF Includes(pm[p].children, c) THEN pm
                    ELSE [pm EXCEPT ![p].children = Append(@, c)]
         IN  TsPushChildren(pm1, p, Tail(kids))

\* one iteration of this.families.forEach(family => ...) in the ts buildIndex
TsIndexFamily(pm, fam) ==
    LET pm1 == IF fam.husband # None /\ fam.husband \in DOMAIN pm
               THEN TsPushChildren(pm, fam.husband, fam.children) ELSE pm
    IN  IF fam.wife # None /\ fam.wife \in DOMAIN pm1
        THEN TsPushChildren(pm1, fam.wife, fam.children) ELSE pm1

RECURSIVE TsIndexFamilies(_, _)
TsIndexFamilies(pm, fams) ==
    IF fams = <<>> THEN pm
    ELSE TsIndexFamilies(TsIndexFamily(pm, Head(fams)), Tail(fams))

\* a variant of buildIndex that adds to the old index instead of replacing it
BuildIndexMerging(v, st) ==
    LET new == NewPeopleMap(st.people)
        pm0 == [id \in DOMAIN st.peopleMap \cup DOMAIN new |->
                   IF id \in DOMAIN new THEN new[id] ELSE st.peopleMap[id]]
        pm == IF v = "ts" THEN TsIndexFamilies(pm0, st.families) ELSE pm0
    IN  [st EXCEPT
            !.peopleMap = pm,
            !.people = [i \in DOMAIN st.people |->
                           IF i = LastIndexOf(st.people, st.people[i].id)
                           THEN pm[st.people[i].id] ELSE st.people[i]]]

\* buildIndex; the person objects are shared by this.people and this.peopleMap
BuildIndex(v, st) ==
    LET pm0 == NewPeopleMap(st.people)
        pm == IF v = "ts" THEN TsIndexFamilies(pm0, st.families) ELSE pm0
    IN  [st EXCEPT
            !.peopleMap = pm,
            !.people = [i \in DOMAIN st.people |->
                           IF i = LastIndexOf(st.people, st.people[i].id)
                           THEN pm[st.people[i].id] ELSE st.people[i]]]

\* the four assignments that open loadFromGedcom
AssignCollections(st, d) ==
    [st EXCEPT !.people = d.people, !.families = d.families,
               !.sources = d.sources, !.media = d.media]

\* a variant of loadFromGedcom that returns before the index is rebuilt
LoadWithoutIndex(v, st, d) ==
    [store |-> [AssignCollections(st, d) EXCEPT !.isLoaded = TRUE], threw |-> FALSE, data |-> d]

\* loadFromGedcom(parsedData): the store it leaves, whether it threw, and the
\* parsed data afterwards (parsedData.people is the array the store now holds)
LoadFromGedcom(v, st, d) ==
    LET st1 == AssignCollections(st, d)
    IN  IF MapThrows(st1.people)
        THEN [store |-> st1, threw |-> TRUE, data |-> d]
        ELSE LET st2 == BuildIndex(v, st1)
             IN  [store |-> [st2 EXCEPT !.isLoaded = TRUE], threw |-> FALSE,
                  data |-> [d EXCEPT !.people = st2.people]]

\* clearData (ts)
ClearedStore(st) ==
    [st EXCEPT !.people = <<>>, !.families = <<>>, !.sources = <<>>, !.media = <<>>,
               !.peopleMap = EmptyPeopleMap, !.isLoaded = FALSE]

\* getPerson(id): this.peopleMap.get(id)
HasPerson(st, id) == id \in DOMAIN st.peopleMap

GetPerson(st, id) == IF HasPerson(st, id) THEN st.peopleMap[id] ELSE NullPerson

\* getAllPeople()
GetAllPeople(st) == st.people

\* getParents(id): person.parents.map(id => this.getPerson(id)).filter(Boolean), as ids
GetParents(st, id) ==
    IF ~HasPerson(st, id) THEN <<>>
    ELSE SelectKeys(GetPerson(st, id).parents, DOMAIN st.peopleMap)

\* getChildren(id), as ids
GetChildren(st, id) ==
    IF ~HasPerson(st, id) THEN <<>>
    ELSE SelectKeys(GetPerson(st, id).children, DOMAIN st.peopleMap)

\* getSiblings(id), as ids: a Set filled in order of the parents' children lists
RECURSIVE AddSiblings(_, _, _)
AddSiblings(acc, kids, self) ==
    IF kids = <<>> THEN acc
    ELSE AddSiblings(IF Head(kids) # self /\ ~Includes(acc, Head(kids))
                     THEN Append(acc, Head(kids)) ELSE acc,
                     Tail(kids), self)

RECURSIVE SiblingIds(_, _, _, _)
SiblingIds(st, acc, parents, self) ==
    IF parents = <<>> THEN acc
    ELSE SiblingIds(st,
                    IF HasPerson(st, Head(parents))
                    THEN AddSiblings(acc, GetPerson(st, Head(parents)).children, self)
                    ELSE acc,
                    Tail(parents), self)

\* a variant of getSiblings without `if (!person) return []`: reading
\* person.parents of undefined is a TypeError
GetSiblingsUnguarded(st, id) ==
    IF ~HasPerson(st, id) THEN <<"TypeError">>
    ELSE SelectKeys(SiblingIds(st, <<>>, GetPerson(st, id).parents, id),
                    DOMAIN st.peopleMap)

GetSiblings(st, id) ==
    IF ~HasPerson(st, id) THEN <<>>
    ELSE SelectKeys(SiblingIds(st, <<>>, GetPerson(st, id).parents, id),
                    DOMAIN st.peopleMap)

RECURSIVE SpouseViews(_, _, _)
\* person.spouses.map(...).filter(...): the ts port drops the divorce
SpouseViews(v, st, entries) ==
    IF entries = <<>> THEN <<>>
    ELSE LET e == Head(entries)
             rest == SpouseViews(v, st, Tail(entries))
         IN  IF HasPerson(st, e.person)
             THEN <<SpouseEntry(e.person, e.marriage,
                                IF v = "ts" THEN None ELSE e.divorce)>> \o rest
             ELSE rest

\* getSpouses(id), the person of each entry as its id
GetSpouses(v, st, id) ==
    IF ~HasPerson(st, id) THEN <<>> ELSE SpouseViews(v, st, GetPerson(st, id).spouses)

\* maxGenerations when the second argument is left out
NoArg == [kind |-> "omitted", n |-> 0]

\* the value of maxGenerations inside the call
EffectiveMax(arg) == IF arg.kind = "omitted" THEN DefaultMaxGenerations ELSE arg.n

\* a variant of the bound test that is off by one
ExceedsOffByOne(generation, arg) ==
    arg.kind # "infinity" /\ generation > EffectiveMax(arg) + 1

\* generation > maxGenerations (never true of Infinity)
Exceeds(generation, arg) ==
    arg.kind # "infinity" /\ generation > EffectiveMax(arg)

\* a variant of the guard without the visited test
ShouldReturnUnvisited(generation, arg, id, visited) == Exceeds(generation, arg)

\* if (generation > maxGenerations || visited.has(id)) return
ShouldReturn(generation, arg, id, visited) == Exceeds(generation, arg) \/ id \in visited

\* person.parents for getAncestors, person.children for getDescendants
EdgeList(st, kind, id) ==
    IF kind = "ancestors" THEN GetPerson(st, id).parents ELSE GetPerson(st, id).children

RECURSIVE TraverseFrom(_, _, _, _, _, _)
RECURSIVE TraverseList(_, _, _, _, _, _)
\* traverse(id, generation): the visited set and the result list after the call
TraverseFrom(st, kind, arg, id, generation, acc) ==
    IF ShouldReturn(generation, arg, id, acc.visited) THEN acc
    ELSE LET acc1 == [acc EXCEPT !.visited = @ \cup {id}]
         IN  IF ~HasPerson(st, id) THEN acc1
             ELSE TraverseList(st, kind, arg, EdgeList(st, kind, id), generation, acc1)

\* person.parents.forEach(...) inside traverse
TraverseList(st, kind, arg, list, generation, acc) ==
    IF list = <<>> THEN acc
    ELSE LET nid == Head(list)
         IN  IF HasPerson(st, nid)
             THEN TraverseList(st, kind, arg, Tail(list), generation,
                      TraverseFrom(st, kind, arg, nid, generation + 1,
                          [acc EXCEPT !.result =
                               Append(@, [id |-> nid, generation |-> generation])]))
             ELSE TraverseList(st, kind, arg, Tail(list), generation, acc)

\* getAncestors(id, arg)
GetAncestors(st, id, arg) ==
    TraverseFrom(st, "ancestors", arg, id, 1, [visited |-> {}, result |-> <<>>]).result

\* getDescendants(id, arg)
GetDescendants(st, id, arg) ==
    TraverseFrom(st, "descendants", arg, id, 1, [visited |-> {}, result |-> <<>>]).result

PersonIds(people) == [i \in DOMAIN people |-> people[i].id]

\* what a view reads from the store for one id
QueryResult(v, st, id) ==
    [id |-> id, found |-> HasPerson(st, id), all |-> PersonIds(GetAllPeople(st)),
     parents |-> GetParents(st, id), children |-> GetChildren(st, id),
     siblings |-> GetSiblings(st, id), spouses |-> GetSpouses(v, st, id),
     ancestors |-> GetAncestors(st, id, NoArg),
     descendants |-> GetDescendants(st, id, NoArg),
     loaded |-> st.isLoaded]

NoQuery ==
    [id |-> None, found |-> FALSE, all |-> <<>>, parents |-> <<>>, children |-> <<>>,
     siblings |-> <<>>, spouses |-> <<>>, ancestors |-> <<>>, descendants |-> <<>>,
     loaded |-> FALSE]

-----------------------------------------------------------------------------
(* Input files of the linking specification *)

NoData == [people |-> <<>>, families |-> <<>>, sources |-> <<>>, media |-> <<>>]

NoFile == [indi |-> <<>>, fam |-> <<>>, sour |-> <<>>, obje |-> <<>>]

\* no parser constructed yet
NoParser == [phase |-> "none"]

IdleTask == [pc |-> "idle", file |-> NoFile, status |-> None, overlapped |-> FALSE]

NoTraversal ==
    [pc |-> "idle", kind |-> None, root |-> None, arg |-> NoArg,
     stack |-> <<>>, visited |-> {}, result |-> <<>>]

NoRelationship == [a |-> None, b |-> None, relationship |-> None, path |-> <<>>]

NoCall == [fn |-> "none"]

\* no query call in progress
QueryIdle ==
    /\ trav = NoTraversal
    /\ rel = NoRelationship
    /\ call = NoCall

\* the upload flow and the history variables at rest
FlowIdle ==
    /\ tasks = [t \in 1..MaxUploads |-> IdleTask]
    /\ last = [kind |-> "none", data |-> NoData]
    /\ before = EmptyStore
    /\ outcome = "none"
    /\ observed = NoQuery

IndiRec(k, sex, famc, fams) == [xref |-> AddAt(k), sex |-> sex, famc |-> famc, fams |-> fams]

FamRec(k, husb, wife, chil, marr, div) ==
    [xref |-> AddAt(k), husb |-> husb, wife |-> wife, chil |-> chil, marr |-> marr, div |-> div]

IndiRefs == {AddAt(k) : k \in IndiKeys}

OptIndiRefs == IndiRefs \cup {None}

\* FAMC / FAMS lines of one individual
PointerChoices == {<<<<>>, <<>>>>, <<<<AddAt("F1")>>, <<>>>>, <<<<>>, <<AddAt("F1")>>>>}

EventChoices == {<<None, None>>, <<"MARR", "DIV">>}

FirstFamilies ==
    {FamRec("F1", h, w, c, e[1], e[2]) :
        h \in OptIndiRefs, w \in OptIndiRefs, c \in SeqsUpTo(IndiRefs, MaxChil), e \in EventChoices}

\* a second family record; its xref may repeat the first one's
SecondFamilies ==
    {FamRec(k, h, None, c, None, None) :
        k \in FamKeys, h \in OptIndiRefs, c \in SeqsUpTo(IndiRefs, 1)}

IndiLists(p1, p2, p3) ==
    { <<IndiRec("I1", "M", p1[1], p1[2]), IndiRec("I2", "F", p2[1], p2[2])>>,
      <<IndiRec("I1", "M", p1[1], p1[2]), IndiRec("I2", "F", p2[1], p2[2]),
        IndiRec("I3", None, p3[1], p3[2])>> }

NoPointers == <<<<>>, <<>>>>

LinkFiles ==
    { [indi |-> il, fam |-> <<f1>>, sour |-> <<>>, obje |-> <<>>] :
        il \in UNION {IndiLists(p1, p2, p3) :
                        p1 \in PointerChoices, p2 \in PointerChoices, p3 \in PointerChoices},
        f1 \in FirstFamilies }
    \cup
    { [indi |-> il, fam |-> <<f1, f2>>, sour |-> <<>>, obje |-> <<>>] :
        il \in IndiLists(NoPointers, NoPointers, NoPointers),
        f1 \in FirstFamilies, f2 \in SecondFamilies }

-----------------------------------------------------------------------------
(* Linking specification: one file is parsed, then loaded, then loaded again *)

InitLink ==
    /\ variant \in Variants
    /\ file \in LinkFiles
    /\ parser = NoParser
    /\ parsed = NoData
    /\ store = EmptyStore
    /\ pc = "start"
    /\ nloads = 0
    /\ FlowIdle
    /\ QueryIdle

\* const data = parser.parse(content)
Parse ==
    /\ pc = "start"
    /\ parsed' = ParseFile(variant, file)
    /\ pc' = "parsed"
    /\ UNCHANGED <<variant, file, store, nloads, parser, flowVars, queryVars>>

\* store.loadFromGedcom(data)
Load ==
    /\ pc \in {"parsed", "loaded"}
    /\ nloads < MaxLoads
    /\ LET r == LoadFromGedcom(variant, store, parsed)
       IN  /\ store' = r.store
           /\ parsed' = r.data
    /\ pc' = "loaded"
    /\ nloads' = nloads + 1
    /\ UNCHANGED <<variant, file, parser, flowVars, queryVars>>

NextLink == Parse \/ Load

SpecLink == InitLink /\ [][NextLink]_vars

-----------------------------------------------------------------------------
(* Claims about linking *)

\* the families that join p and q as husband and wife, either way round
FamiliesJoining(st, p, q) ==
    {i \in DOMAIN st.families :
        \/ st.families[i].husband = p /\ st.families[i].wife = q
        \/ st.families[i].husband = q /\ st.families[i].wife = p}

HasSpouseEntry(p, e) == \E i \in DOMAIN p.spouses : p.spouses[i] = e

\* C1: after a file is parsed and loaded, child id C is in P.children if and
\* only if P's id is in C.parents, for every pair of persons of the store.
C1_Bidirectional ==
    pc = "loaded" =>
        \A i, j \in DOMAIN store.people :
            Includes(store.people[i].children, store.people[j].id)
                <=> Includes(store.people[j].parents, store.people[i].id)

\* C2: after linking, for every family whose husband and wife both exist the two
\* list each other with the family's marriage and divorce events, and whenever
\* a person A lists B as a spouse, B is a person who lists A.
C2_SpousesMutual ==
    pc = "loaded" =>
        /\ \A i \in DOMAIN store.families :
              LET f == store.families[i]
              IN  (f.husband # None /\ f.wife # None
                   /\ HasPerson(store, f.husband) /\ HasPerson(store, f.wife)) =>
                      /\ HasSpouseEntry(GetPerson(store, f.husband),
                                        SpouseEntry(f.wife, f.marriage, f.divorce))
                      /\ HasSpouseEntry(GetPerson(store, f.wife),
                                        SpouseEntry(f.husband, f.marriage, f.divorce))
        /\ \A i \in DOMAIN store.people :
              \A k \in DOMAIN store.people[i].spouses :
                  LET b == store.people[i].spouses[k].person
                  IN  /\ HasPerson(store, b)
                      /\ \E m \in DOMAIN GetPerson(store, b).spouses :
                            GetPerson(store, b).spouses[m].person = store.people[i].id

\* C3: linking is duplicate-free and idempotent: no id twice in a parents or
\* children list, no second spouse entry for one family, and loading the same
\* parsed data again changes nothing.
C3_NoDuplicates ==
    pc = "loaded" =>
        /\ \A i \in DOMAIN store.people :
              LET p == store.people[i]
              IN  /\ NoDuplicates(p.parents)
                  /\ NoDuplicates(p.children)
                  /\ \A q \in {p.spouses[k].person : k \in DOMAIN p.spouses} :
                        Cardinality({k \in DOMAIN p.spouses : p.spouses[k].person = q})
                            <= Cardinality(FamiliesJoining(store, p.id, q))
        /\ LoadFromGedcom(variant, store, parsed).store = store

-----------------------------------------------------------------------------
(* The upload flow and the store's life cycle *)

\* three people, one family, pointers on both sides
FileA ==
    [indi |-> <<IndiRec("I1", "M", <<>>, <<AddAt("F1")>>),
                IndiRec("I2", "F", <<>>, <<AddAt("F1")>>),
                IndiRec("I3", None, <<AddAt("F1")>>, <<>>)>>,
     fam |-> <<FamRec("F1", AddAt("I1"), AddAt("I2"), <<AddAt("I3")>>, "MARR", None)>>,
     sour |-> <<[xref |-> AddAt("S1")]>>, obje |-> <<>>]

\* two other people
FileB ==
    [indi |-> <<IndiRec("I4", "M", <<>>, <<>>), IndiRec("I5", "F", <<AddAt("F2")>>, <<>>)>>,
     fam |-> <<FamRec("F2", AddAt("I4"), None, <<AddAt("I5")>>, None, None)>>,
     sour |-> <<>>, obje |-> <<[xref |-> AddAt("M1")]>>]

\* ids of both, linked differently
FileC ==
    [indi |-> <<IndiRec("I1", "M", <<AddAt("F1")>>, <<>>), IndiRec("I4", "M", <<>>, <<>>)>>,
     fam |-> <<FamRec("F1", AddAt("I4"), None, <<AddAt("I1")>>, None, None)>>,
     sour |-> <<>>, obje |-> <<>>]

UploadFiles == {FileA, FileB, FileC}

QueryIds == {AddAt("I1"), AddAt("I5")}

\* what a load attempt leaves in the history variables
Attempt(st, d, r) ==
    /\ before' = st
    /\ outcome' = IF r.threw THEN "error" ELSE "ok"
    /\ last' = IF r.threw THEN last ELSE [kind |-> "load", data |-> d]

\* processFile up to `await file.text()`
StartUpload(t, f) ==
    /\ tasks[t].pc = "idle"
    /\ LET others == \E u \in DOMAIN tasks : u # t /\ tasks[u].pc = "reading"
       IN  tasks' = [u \in DOMAIN tasks |->
                        IF u = t
                        THEN [pc |-> "reading", file |-> f, status |-> None, overlapped |-> others]
                        ELSE IF tasks[u].pc = "reading"
                             THEN [tasks[u] EXCEPT !.overlapped = TRUE]
                             ELSE tasks[u]]
    /\ UNCHANGED <<variant, store, linkVars, queryVars, last, before, outcome, observed>>

\* the text has arrived: parse, loadFromGedcom and the status message, in one go
FinishUpload(t) ==
    /\ tasks[t].pc = "reading"
    /\ LET d == ParseFile(variant, tasks[t].file)
           r == LoadFromGedcom(variant, store, d)
       IN  /\ store' = r.store
           /\ Attempt(store, d, r)
           /\ tasks' = [tasks EXCEPT ![t].pc = "done",
                                     ![t].status = IF r.threw THEN "error" ELSE "success"]
    /\ UNCHANGED <<variant, linkVars, queryVars, observed>>

\* file.text() rejects: the catch block reports the error
RejectRead(t) ==
    /\ tasks[t].pc = "reading"
    /\ tasks' = [tasks EXCEPT ![t].pc = "done", ![t].status = "error"]
    /\ before' = store
    /\ outcome' = "error"
    /\ UNCHANGED <<variant, store, linkVars, queryVars, last, observed>>

\* loadData(data) of the provider, called with an object the caller built
LoadData(d) ==
    /\ LET r == LoadFromGedcom(variant, store, d)
       IN  /\ store' = r.store
           /\ Attempt(store, d, r)
    /\ UNCHANGED <<variant, linkVars, queryVars, tasks, observed>>

\* clearData() of the provider (the js store has none)
ClearData ==
    /\ variant = "ts"
    /\ store' = ClearedStore(store)
    /\ last' = [kind |-> "clear", data |-> NoData]
    /\ before' = store
    /\ outcome' = "none"
    /\ UNCHANGED <<variant, linkVars, queryVars, tasks, observed>>

\* a view reads the store
Query(id) ==
    /\ observed' = QueryResult(variant, store, id)
    /\ UNCHANGED <<variant, store, linkVars, queryVars, tasks, last, before, outcome>>

Init ==
    /\ variant \in Variants
    /\ store = EmptyStore
    /\ file = NoFile
    /\ parser = NoParser
    /\ parsed = NoData
    /\ pc = "flow"
    /\ nloads = 0
    /\ FlowIdle
    /\ QueryIdle

Next ==
    \/ \E t \in 1..MaxUploads, f \in UploadFiles : StartUpload(t, f)
    \/ \E t \in 1..MaxUploads : FinishUpload(t)
    \/ \E t \in 1..MaxUploads : RejectRead(t)
    \/ ClearData
    \/ \E id \in QueryIds : Query(id)

Spec == Init /\ [][Next]_vars

\* objects a caller can hand to loadData: parse results, and one whose people
\* array holds a null entry
MalformedData ==
    {[people |-> <<NewPerson(AddAt("I5"), "F"), NullPerson>>, families |-> <<>>,
      sources |-> <<>>, media |-> <<>>]}

ApiData == {ParseFile(variant, f) : f \in UploadFiles} \cup MalformedData

NextApi ==
    \/ \E t \in 1..MaxUploads, f \in UploadFiles : StartUpload(t, f)
    \/ \E t \in 1..MaxUploads : FinishUpload(t)
    \/ \E t \in 1..MaxUploads : RejectRead(t)
    \/ \E d \in ApiData : LoadData(d)

SpecApi == Init /\ [][NextApi]_vars

-----------------------------------------------------------------------------
(* Claims about the store's life cycle *)

\* the index resolves exactly the ids of the people list, each to its person
IndexMatches(st) ==
    /\ DOMAIN st.peopleMap = Range(PersonIds(st.people))
    /\ \A i \in DOMAIN st.people : GetPerson(st, st.people[i].id) = st.people[i]

\* every family's resolvable parents list every resolvable child of the family
FullyLinked(st) ==
    \A i \in DOMAIN st.families :
        \A p \in {st.families[i].husband, st.families[i].wife} \cap DOMAIN st.peopleMap :
            \A k \in DOMAIN st.families[i].children :
                HasPerson(st, st.families[i].children[k]) =>
                    Includes(st.peopleMap[p].children, st.families[i].children[k])

\* the store holds the dataset d and nothing else
HoldsDataset(st, d) ==
    /\ PersonIds(GetAllPeople(st)) = PersonIds(d.people)
    /\ \A i \in DOMAIN st.people :
          /\ st.people[i].gender = d.people[i].gender
          /\ st.people[i].parents = d.people[i].parents
          /\ st.people[i].spouses = d.people[i].spouses
    /\ st.families = d.families
    /\ st.sources = d.sources
    /\ st.media = d.media
    /\ IndexMatches(st)

\* C4: after any sequence of loadFromGedcom and clearData calls the store holds
\* exactly the dataset of the most recent call: the people list and the ids that
\* resolve are those of the last load, and after clearData nothing resolves, all
\* collections are empty and getLoaded() is false.
C4_StoreHoldsLastDataset ==
    /\ last.kind = "load" => HoldsDataset(store, last.data) /\ store.isLoaded
    /\ last.kind = "clear" =>
          /\ GetAllPeople(store) = <<>> /\ store.families = <<>>
          /\ store.sources = <<>> /\ store.media = <<>>
          /\ \A k \in AllKeys : ~HasPerson(store, AddAt(k))
          /\ ~store.isLoaded

\* a load replaced a loaded dataset, some id of which no longer resolves
C4_Witness ==
    /\ last.kind = "load" /\ outcome = "ok" /\ before.isLoaded
    /\ \E id \in DOMAIN before.peopleMap : ~HasPerson(store, id)

Datasets(v) == {NoData} \cup {ParseFile(v, f) : f \in UploadFiles}

CompleteGraphOf(st, d) == HoldsDataset(st, d) /\ FullyLinked(st)

\* what a query may return when the store is the complete graph of d
ObservationOf(obs, d) ==
    /\ obs.all = PersonIds(d.people)
    /\ obs.found <=> Includes(obs.all, obs.id)
    /\ obs.found =>
          LET q == d.people[CHOOSE i \in DOMAIN d.people : d.people[i].id = obs.id]
          IN  /\ obs.parents = SelectKeys(q.parents, Range(obs.all))
              /\ \A i \in DOMAIN d.families :
                    obs.id \in {d.families[i].husband, d.families[i].wife} =>
                        \A k \in DOMAIN d.families[i].children :
                            Includes(obs.all, d.families[i].children[k]) =>
                                Includes(obs.children, d.families[i].children[k])
    /\ ~obs.found => obs.parents = <<>> /\ obs.children = <<>>

\* C6: under any interleaving of upload tasks with store queries the store is
\* always the complete graph of one dataset (or empty), every query observes
\* such a graph, and once all overlapping uploads have finished the store is
\* the dataset of one of them in full.
C6_AtomicLoad ==
    /\ \E d \in Datasets(variant) : CompleteGraphOf(store, d)
    /\ observed # NoQuery => \E d \in Datasets(variant) : ObservationOf(observed, d)
    /\ ((\A t \in DOMAIN tasks : tasks[t].pc = "done") /\ last.kind = "load") =>
          \E t \in DOMAIN tasks :
              /\ tasks[t].status = "success"
              /\ CompleteGraphOf(store, ParseFile(variant, tasks[t].file))

\* two uploads of different files overlapped, both finished, and a query found
\* a person of the surviving dataset
C6_Witness ==
    /\ \A t \in DOMAIN tasks :
          tasks[t].pc = "done" /\ tasks[t].overlapped /\ tasks[t].status = "success"
    /\ \E t, u \in DOMAIN tasks : tasks[t].file # tasks[u].file
    /\ last.kind = "load"
    /\ observed.found /\ observed.all = PersonIds(store.people)

-----------------------------------------------------------------------------
(* getAncestors / getDescendants, step by step *)

\* call-stack depth the traversal model holds: two frames more than persons
StackCap(st) == Cardinality(DOMAIN st.peopleMap) + 2

Frame(id, generation) == [id |-> id, generation |-> generation, idx |-> 0]

Top(stack) == stack[Len(stack)]

Pop(stack) == SubSeq(stack, 1, Len(stack) - 1)

\* the call returns when its outermost traverse returns
Returned(t, stack) ==
    [t EXCEPT !.stack = stack, !.pc = IF stack = <<>> THEN "done" ELSE "run"]

\* getAncestors(id, arg) / getDescendants(id, arg) up to traverse(personId, 1)
CallTraverse(kind, id, arg) ==
    /\ trav.pc = "idle"
    /\ trav' = [pc |-> "run", kind |-> kind, root |-> id, arg |-> arg,
                stack |-> <<Frame(id, 1)>>, visited |-> {}, result |-> <<>>]
    /\ UNCHANGED <<variant, store, linkVars, flowVars, rel, call>>

\* traverse(id, generation) from its first line to the start of the forEach
TraverseEnter ==
    /\ trav.pc = "run"
    /\ Top(trav.stack).idx = 0
    /\ LET f == Top(trav.stack)
       IN  IF ShouldReturn(f.generation, trav.arg, f.id, trav.visited)
           THEN trav' = Returned(trav, Pop(trav.stack))
           ELSE IF ~HasPerson(store, f.id)
                THEN trav' = [Returned(trav, Pop(trav.stack)) EXCEPT
                                 !.visited = @ \cup {f.id}]
                ELSE trav' = [trav EXCEPT !.visited = @ \cup {f.id},
                                          !.stack[Len(trav.stack)].idx = 1]
    /\ UNCHANGED <<variant, store, linkVars, flowVars, rel, call>>

\* one iteration of person.parents.forEach(...) (or the end of the loop)
TraverseLoop ==
    /\ trav.pc = "run"
    /\ Top(trav.stack).idx >= 1
    /\ LET f == Top(trav.stack)
           list == EdgeList(store, trav.kind, f.id)
       IN  IF f.idx > Len(list)
           THEN trav' = Returned(trav, Pop(trav.stack))
           ELSE LET nid == list[f.idx]
                    advanced == [trav.stack EXCEPT ![Len(trav.stack)].idx = f.idx + 1]
                IN  IF HasPerson(store, nid)
                    THEN /\ Len(trav.stack) < StackCap(store)
                         /\ trav' = [trav EXCEPT
                               !.result = Append(@, [id |-> nid, generation |-> f.generation]),
                               !.stack = Append(advanced, Frame(nid, f.generation + 1))]
                    ELSE trav' = [trav EXCEPT !.stack = advanced]
    /\ UNCHANGED <<variant, store, linkVars, flowVars, rel, call>>

TraverseStep == TraverseEnter \/ TraverseLoop

(* ---- the stores the query specifications start from ---- *)

NoRepSeqs(S, n) == {q \in SeqsUpTo(S, n) : NoDuplicates(q)}

IndiOrder == <<AddAt("I1"), AddAt("I2"), AddAt("I3")>>

\* the persons that list p, in store order
ConverseList(lists, order, p) ==
    SelectKeys(order, {q \in Range(order) : Includes(lists[q], p)})

\* a loaded store holding the given people
StoreOf(people) ==
    LoadFromGedcom("js", EmptyStore,
                   [people |-> people, families |-> <<>>, sources |-> <<>>,
                    media |-> <<>>]).store

\* a loaded store whose persons carry the given edge lists
GraphStore(present, par, chi, sp) ==
    LET order == SelectKeys(IndiOrder, present)
    IN  StoreOf([i \in DOMAIN order |->
                    [NewPerson(order[i], None) EXCEPT
                        !.parents = par[order[i]], !.spouses = sp[order[i]],
                        !.children = chi[order[i]]]])

ChainId(i) == "@P" \o ToString(i) \o "@"

\* P1's parent is P2, P2's parent is P3, ... up to P<ChainLen>
ChainStore ==
    StoreOf([i \in 1..ChainLen |->
                [NewPerson(ChainId(i), None) EXCEPT
                    !.parents = IF i < ChainLen THEN <<ChainId(i + 1)>> ELSE <<>>,
                    !.children = IF i > 1 THEN <<ChainId(i - 1)>> ELSE <<>>]])

PresentChoices == {IndiRefs, {AddAt("I1"), AddAt("I2")}}

\* the stores drawn over up to three persons: edge lists without repetition,
\* the opposite lists their converse
SmallStores ==
    UNION {LET order == SelectKeys(IndiOrder, present)
               nosp == [p \in present |-> <<>>]
           IN  UNION {LET conv == [p \in present |-> ConverseList(lists, order, p)]
                      IN  {GraphStore(present, lists, conv, nosp),
                           GraphStore(present, conv, lists, nosp)}
                      : lists \in [present -> NoRepSeqs(IndiRefs, MaxEdges)]}
           : present \in PresentChoices}

TravArgs ==
    {NoArg, [kind |-> "infinity", n |-> 0]}
        \cup {[kind |-> "finite", n |-> k] : k \in 0..MaxGenArg}

\* the ids the calls are made with: a person of the store, and an id it lacks
TravRoots(st) ==
    IF st = ChainStore THEN {ChainId(1), ChainId(ChainLen)}
    ELSE {AddAt("I1"), AddAt("I4")}

\* getAncestors and getDescendants are the same text in both variants
InitTraverse ==
    /\ variant = "js"
    /\ store \in SmallStores \cup {ChainStore}
    /\ file = NoFile
    /\ parser = NoParser
    /\ parsed = NoData
    /\ pc = "query"
    /\ nloads = 0
    /\ FlowIdle
    /\ QueryIdle

NextTraverse ==
    \/ \E kind \in {"ancestors", "descendants"}, id \in TravRoots(store), arg \in TravArgs :
          CallTraverse(kind, id, arg)
    \/ TraverseEnter
    \/ TraverseLoop

SpecTraverse == InitTraverse /\ [][NextTraverse]_vars /\ WF_vars(TraverseStep)

-----------------------------------------------------------------------------
(* Claims about the traversals *)

ResultIds(t) == [i \in DOMAIN t.result |-> t.result[i].id]

\* the persons of the store one edge away from a person of S
OneHop(st, kind, S) ==
    {y \in DOMAIN st.peopleMap :
        \E x \in S : HasPerson(st, x) /\ Includes(EdgeList(st, kind, x), y)}

RECURSIVE WithinHops(_, _, _, _)
\* the persons reachable from S by a chain of 1..n edges
WithinHops(st, kind, S, n) ==
    IF n <= 0 THEN {}
    ELSE LET T == OneHop(st, kind, S)
         IN  T \cup WithinHops(st, kind, T, n - 1)

\* C7: every getAncestors / getDescendants call returns, whatever the store
\* (cyclic parent/child edges and self-parents included) and whatever
\* maxGenerations is (omitted, a number, Infinity).
C7_TraversalTerminates == (trav.pc = "run") ~> (trav.pc = "done")

\* a call with maxGenerations = Infinity has returned on a graph whose edges
\* lead from the root back to the root
C7_Witness ==
    /\ trav.pc = "done"
    /\ trav.arg.kind = "infinity"
    /\ Includes(ResultIds(trav), trav.root)

\* C8: in the list a traversal returns no person id appears more than once.
C8_NoRepeatedIds == trav.pc = "done" => NoDuplicates(ResultIds(trav))

\* C9: every entry returned by a call with bound n (10 when omitted) has a
\* generation tag in 1..n and a person reachable from the root by a chain of
\* at most n edges.
C9_GenerationBound ==
    (trav.pc = "done" /\ trav.arg.kind # "infinity") =>
        LET n == EffectiveMax(trav.arg)
            near == WithinHops(store, trav.kind, {trav.root}, n)
        IN  \A i \in DOMAIN trav.result :
               /\ trav.result[i].generation \in 1..n
               /\ trav.result[i].id \in near

\* a call without second argument has returned on the long chain: ten
\* entries, and the person eleven edges away is not among them
C9_Witness ==
    /\ trav.pc = "done"
    /\ trav.arg = NoArg
    /\ store = ChainStore
    /\ trav.root = ChainId(1)
    /\ trav.kind = "ancestors"
    /\ Len(trav.result) = DefaultMaxGenerations
    /\ ~Includes(ResultIds(trav), ChainId(ChainLen))
    /\ ChainId(ChainLen) \in WithinHops(store, "ancestors", {ChainId(1)}, ChainLen)

-----------------------------------------------------------------------------
(* calculateRelationship (src/js/family-data.js) *)

Conn(id, type) == [id |-> id, type |-> type]

\* a variant of the connection list that enumerates children before parents
ConnectionsChildrenFirst(p) ==
    [i \in DOMAIN p.children |-> Conn(p.children[i], "child")]
        \o [i \in DOMAIN p.parents |-> Conn(p.parents[i], "parent")]
        \o [i \in DOMAIN p.spouses |-> Conn(p.spouses[i].person, "spouse")]

\* [...parents.map(parent), ...children.map(child), ...spouses.map(s => s.person)]
Connections(p) ==
    [i \in DOMAIN p.parents |-> Conn(p.parents[i], "parent")]
        \o [i \in DOMAIN p.children |-> Conn(p.children[i], "child")]
        \o [i \in DOMAIN p.spouses |-> Conn(p.spouses[i].person, "spouse")]

Steps(path, type) == Cardinality({i \in DOMAIN path : path[i].type = type})

Min(a, b) == IF a <= b THEN a ELSE b

Abs(a) == IF a < 0 THEN 0 - a ELSE a

Ordinal(n) ==
    IF n = 1 THEN "1st" ELSE IF n = 2 THEN "2nd" ELSE IF n = 3 THEN "3rd"
    ELSE ToString(n) \o "th"

\* a variant of the cousin branch that takes the degree from the longer side
CousinLabelByMax(parentSteps, childSteps, len) ==
    LET Max(a, b) == IF a >= b THEN a ELSE b
    IN  IF parentSteps > 0 /\ childSteps > 0 /\ Min(parentSteps, childSteps) >= 2
        THEN LET diff == Abs(parentSteps - childSteps)
                 base == Ordinal(Max(parentSteps, childSteps) - 1) \o " cousin"
             IN  IF diff > 0 THEN base \o " " \o ToString(diff) \o "x removed" ELSE base
        ELSE "Related (" \o ToString(len) \o " steps)"

\* the cousin branch and the fallback of describeRelationship
CousinLabel(parentSteps, childSteps, len) ==
    IF parentSteps > 0 /\ childSteps > 0 /\ Min(parentSteps, childSteps) >= 2
    THEN LET diff == Abs(parentSteps - childSteps)
             base == Ordinal(Min(parentSteps, childSteps) - 1) \o " cousin"
         IN  IF diff > 0 THEN base \o " " \o ToString(diff) \o "x removed" ELSE base
    ELSE "Related (" \o ToString(len) \o " steps)"

\* the cascade of describeRelationship over the counted steps
StepLabel(parentSteps, childSteps, hasSpouse, len) ==
    IF parentSteps = 1 /\ childSteps = 0
    THEN (IF hasSpouse THEN "Parent's spouse" ELSE "Parent")
    ELSE IF parentSteps = 0 /\ childSteps = 1
    THEN (IF hasSpouse THEN "Spouse's child" ELSE "Child")
    ELSE IF parentSteps = 2 /\ childSteps = 0 THEN "Grandparent"
    ELSE IF parentSteps = 0 /\ childSteps = 2 THEN "Grandchild"
    ELSE IF parentSteps = 3 /\ childSteps = 0 THEN "Great-grandparent"
    ELSE IF parentSteps = 0 /\ childSteps = 3 THEN "Great-grandchild"
    ELSE IF parentSteps = 1 /\ childSteps = 1 THEN "Sibling"
    ELSE IF parentSteps = 2 /\ childSteps = 1 THEN "Aunt/Uncle"
    ELSE IF parentSteps = 1 /\ childSteps = 2 THEN "Niece/Nephew"
    ELSE IF parentSteps = 2 /\ childSteps = 2 THEN "First cousin"
    ELSE CousinLabel(parentSteps, childSteps, len)

\* a variant of describeRelationship that counts the steps the other way round
DescribeFromTarget(path) ==
    IF Len(path) = 0 THEN "Self"
    ELSE IF Len(path) = 1
    THEN (IF path[1].type = "parent" THEN "Child"
          ELSE IF path[1].type = "child" THEN "Parent" ELSE "Spouse")
    ELSE StepLabel(Steps(path, "child"), Steps(path, "parent"),
                   Steps(path, "spouse") > 0, Len(path))

\* describeRelationship(path)
DescribeRelationship(path) ==
    IF Len(path) = 0 THEN "Self"
    ELSE IF Len(path) = 1
    THEN (IF path[1].type = "parent" THEN "Parent"
          ELSE IF path[1].type = "child" THEN "Child" ELSE "Spouse")
    ELSE StepLabel(Steps(path, "parent"), Steps(path, "child"),
                   Steps(path, "spouse") > 0, Len(path))

RECURSIVE ScanConnections(_, _, _, _, _)
\* for (const conn of connections): the path found, or the queue and the
\* visited set after the loop
ScanConnections(conns, path, queue, visited, target) ==
    IF conns = <<>>
    THEN [found |-> FALSE, path |-> <<>>, queue |-> queue, visited |-> visited]
    ELSE LET conn == Head(conns)
         IN  IF conn.id = target
             THEN [found |-> TRUE, path |-> Append(path, conn), queue |-> queue,
                   visited |-> visited]
             ELSE IF conn.id \notin visited
             THEN ScanConnections(Tail(conns), path,
                                  Append(queue, [id |-> conn.id, path |-> Append(path, conn)]),
                                  visited \cup {conn.id}, target)
             ELSE ScanConnections(Tail(conns), path, queue, visited, target)

RECURSIVE SearchQueueUnguarded(_, _, _, _)
\* a variant of the loop without `if (!current) continue`: reading
\* current.parents of undefined is a TypeError
SearchQueueUnguarded(st, queue, visited, target) ==
    IF queue = <<>>
    THEN [relationship |-> "No direct relationship found", path |-> <<>>]
    ELSE LET current == Head(queue)
         IN  IF ~HasPerson(st, current.id)
             THEN [relationship |-> "TypeError", path |-> <<>>]
             ELSE LET scan == ScanConnections(Connections(GetPerson(st, current.id)),
                                              current.path, Tail(queue), visited, target)
                  IN  IF scan.found
                      THEN [relationship |-> DescribeRelationship(scan.path),
                            path |-> scan.path]
                      ELSE SearchQueueUnguarded(st, scan.queue, scan.visited, target)

RECURSIVE SearchQueue(_, _, _, _)
\* while (queue.length > 0) { ... }
SearchQueue(st, queue, visited, target) ==
    IF queue = <<>>
    THEN [relationship |-> "No direct relationship found", path |-> <<>>]
    ELSE LET current == Head(queue)
         IN  IF ~HasPerson(st, current.id)
             THEN SearchQueue(st, Tail(queue), visited, target)
             ELSE LET scan == ScanConnections(Connections(GetPerson(st, current.id)),
                                              current.path, Tail(queue), visited, target)
                  IN  IF scan.found
                      THEN [relationship |-> DescribeRelationship(scan.path),
                            path |-> scan.path]
                      ELSE SearchQueue(st, scan.queue, scan.visited, target)

\* calculateRelationship(person1Id, person2Id), as a function of the store
RelationshipOf(st, person1Id, person2Id) ==
    IF person1Id = person2Id
    THEN [relationship |-> "Same person", path |-> <<>>]
    ELSE SearchQueue(st, <<[id |-> person1Id, path |-> <<>>]>>, {person1Id}, person2Id)

\* a call of calculateRelationship; rel keeps its arguments and what it returned
CalculateRelationship(person1Id, person2Id) ==
    /\ LET r == RelationshipOf(store, person1Id, person2Id)
       IN  rel' = [a |-> person1Id, b |-> person2Id,
                   relationship |-> r.relationship, path |-> r.path]
    /\ UNCHANGED <<variant, store, linkVars, flowVars, trav, call>>

\* no couple, or one couple with mutual spouse entries
CoupleChoices ==
    {{}} \cup {c \in SUBSET IndiRefs : Cardinality(c) = 2}

SpouseLists(present, couple) ==
    [p \in present |->
        IF p \in couple /\ couple \subseteq present
        THEN <<SpouseEntry(CHOOSE q \in couple : q # p, None, None)>>
        ELSE <<>>]

\* stores over up to three persons: drawn parents lists, the children lists
\* their converse, and at most one couple
RelStores ==
    UNION {LET order == SelectKeys(IndiOrder, present)
           IN  {GraphStore(present, lists,
                           [p \in present |-> ConverseList(lists, order, p)],
                           SpouseLists(present, couple))
                : lists \in [present -> NoRepSeqs(IndiRefs, MaxEdges)],
                  couple \in CoupleChoices}
           : present \in PresentChoices}

RelIds == IndiRefs \cup {AddAt("I4")}

\* calculateRelationship exists in family-data.js only
InitRel ==
    /\ variant = "js"
    /\ store \in RelStores
    /\ file = NoFile
    /\ parser = NoParser
    /\ parsed = NoData
    /\ pc = "query"
    /\ nloads = 0
    /\ FlowIdle
    /\ QueryIdle

NextRel == \E person1Id \in RelIds, person2Id \in RelIds :
              CalculateRelationship(person1Id, person2Id)

SpecRel == InitRel /\ [][NextRel]_vars

-----------------------------------------------------------------------------
(* Claims about calculateRelationship *)

Spouses(st, p, q) ==
    \E i \in DOMAIN GetPerson(st, p).spouses : GetPerson(st, p).spouses[i].person = q

\* a's only parent is b, b's only parent is c, c has no parent in the store,
\* the children lists match, and a and c are not a couple
ParentChain(st, a, b, c) ==
    /\ a # b /\ b # c /\ a # c
    /\ HasPerson(st, a) /\ HasPerson(st, b) /\ HasPerson(st, c)
    /\ GetPerson(st, a).parents = <<b>> /\ GetPerson(st, a).children = <<>>
    /\ GetPerson(st, b).parents = <<c>> /\ GetPerson(st, b).children = <<a>>
    /\ GetPerson(st, c).parents = <<>> /\ GetPerson(st, c).children = <<b>>
    /\ ~Spouses(st, a, c) /\ ~Spouses(st, c, a)

\* C10 as stated: when A's parent is B and B's parent is C,
\* calculateRelationship(A, C) returns "Grandchild" and
\* calculateRelationship(C, A) returns "Grandparent".
C10_GrandchildFromA ==
    \A a, b, c \in IndiRefs :
        ParentChain(store, a, b, c) =>
            /\ (rel.a = a /\ rel.b = c) => rel.relationship = "Grandchild"
            /\ (rel.a = c /\ rel.b = a) => rel.relationship = "Grandparent"

\* C10, amended: when A's parent is B and B's parent is C,
\* calculateRelationship(A, C) returns "Grandparent" (what C is to A) and
\* calculateRelationship(C, A) returns "Grandchild" (what A is to C).
C10_LabelsTheSecondPerson ==
    \A a, b, c \in IndiRefs :
        ParentChain(store, a, b, c) =>
            /\ (rel.a = a /\ rel.b = c) =>
                  /\ rel.relationship = "Grandparent"
                  /\ rel.path = <<Conn(b, "parent"), Conn(c, "parent")>>
            /\ (rel.a = c /\ rel.b = a) =>
                  /\ rel.relationship = "Grandchild"
                  /\ rel.path = <<Conn(b, "child"), Conn(a, "child")>>

\* calculateRelationship(A, C) has returned on a store holding the chain
C10_Witness ==
    /\ ParentChain(store, AddAt("I1"), AddAt("I2"), AddAt("I3"))
    /\ rel.a = AddAt("I1")
    /\ rel.b = AddAt("I3")
    /\ rel.relationship = "Grandparent"

\* the ids named by the edge lists of the persons of S
Linked(st, S) ==
    UNION {{Connections(GetPerson(st, x))[i].id :
               i \in DOMAIN Connections(GetPerson(st, x))}
           : x \in {y \in S : HasPerson(st, y)}}

RECURSIVE Closure(_, _)
\* S and every id a chain of parent, child or spouse edges leads to from S
Closure(st, S) ==
    LET T == S \cup Linked(st, S)
    IN  IF T = S THEN S ELSE Closure(st, T)

NoRelationshipFound == "No direct relationship found"

\* C11: calculateRelationship(a, b) for two different ids that no chain of
\* parent, child or spouse edges joins returns the no-relationship result
\* with an empty path (and no error), also when a is not in the store and on
\* graphs with cycles.
C11_NoChainNoRelationship ==
    (rel.a # None /\ rel.a # rel.b /\ rel.b \notin Closure(store, {rel.a})) =>
        /\ rel.relationship = NoRelationshipFound
        /\ rel.path = <<>>

\* the call has returned for a person on a parent cycle and a person of the
\* store no chain leads to
C11_Witness ==
    /\ rel.a = AddAt("I1")
    /\ rel.b = AddAt("I3")
    /\ HasPerson(store, AddAt("I3"))
    /\ Includes(GetPerson(store, AddAt("I1")).parents, AddAt("I2"))
    /\ Includes(GetPerson(store, AddAt("I2")).parents, AddAt("I1"))
    /\ AddAt("I3") \notin Closure(store, {AddAt("I1")})
    /\ rel.relationship = NoRelationshipFound

-----------------------------------------------------------------------------
(* Claims about the queries *)

\* C12: for an id the store does not hold (also on an empty or cleared
\* store) getPerson finds nothing and getParents, getChildren, getSiblings,
\* getSpouses, getAncestors and getDescendants each return an empty list;
\* a query never changes the store.
C12_QueriesTotal ==
    /\ [](~Includes(observed.all, observed.id) =>
             /\ ~observed.found
             /\ observed.parents = <<>> /\ observed.children = <<>>
             /\ observed.siblings = <<>> /\ observed.spouses = <<>>
             /\ observed.ancestors = <<>> /\ observed.descendants = <<>>)
    /\ [][observed' # observed => store' = store]_vars

\* a loaded store was asked for an id it does not hold
C12_Witness ==
    /\ observed.id = AddAt("I5")
    /\ observed.loaded
    /\ observed.all # <<>>
    /\ ~Includes(observed.all, AddAt("I5"))
    /\ ~observed.found

-----------------------------------------------------------------------------
(* Claims about references to unknown ids *)

\* the ids a person's three lists name
LinkedIds(p) ==
    Range(p.parents) \cup Range(p.children)
        \cup {p.spouses[i].person : i \in DOMAIN p.spouses}

\* C13: after a file is parsed and loaded, every id in any person's parents,
\* children or spouses list is the id of a person of the result: a family's
\* reference to an unknown husband, wife or child creates no link.
C13_NoDanglingLinks ==
    pc = "loaded" =>
        \A i \in DOMAIN store.people :
            LinkedIds(store.people[i]) \subseteq Range(PersonIds(store.people))

-----------------------------------------------------------------------------
(* GedcomParser.parse, line by line *)

\* a line that matches LEVEL [@XREF@] TAG [VALUE]; an absent value is ""
Line(level, xref, tag, value) == [level |-> level, xref |-> xref, tag |-> tag, value |-> value]

\* a non-blank line that does not match
NoMatch == Line(-1, None, "", "")

\* tag.toUpperCase() (ts parseLine)
ToUpperCase(tag) ==
    IF tag = "sex" THEN "SEX" ELSE IF tag = "note" THEN "NOTE" ELSE tag

\* parseLine(line): null (None) when the pattern does not match
ParseLine(v, l) ==
    IF l.level < 0 THEN None
    ELSE IF v = "js" THEN l
    ELSE [l EXCEPT !.tag = ToUpperCase(l.tag),
                   !.xref = IF l.xref = None THEN None ELSE StripAt(l.xref)]

\* nameString.replace(/\//g, '').trim() on the names the inputs use
StripSlashes(name) ==
    IF name = "John /Smith/" THEN "John Smith"
    ELSE IF name = "//" THEN ""
    ELSE name

(* ---- js: createRecord / addToRecord / saveCurrentRecord ---- *)

\* case labels of addToRecord that set data.<event> = data.<event> || {} and return it
JsEventKey(tag) ==
    IF tag = "BIRT" THEN "birth" ELSE IF tag = "DEAT" THEN "death"
    ELSE IF tag = "MARR" THEN "marriage" ELSE IF tag = "DIV" THEN "divorce"
    ELSE IF tag = "BURI" THEN "burial" ELSE IF tag \in {"BAPM", "CHR"} THEN "baptism"
    ELSE IF tag = "CONF" THEN "confirmation" ELSE IF tag = "GRAD" THEN "graduation"
    ELSE IF tag = "EMIG" THEN "emigration" ELSE IF tag = "IMMI" THEN "immigration"
    ELSE IF tag = "NATU" THEN "naturalization" ELSE None

\* case labels that write a field of the wrapper (record.date, record.place, ...),
\* which no later step reads; TYPE is not among them: record.type is read
JsWrapperTags ==
    {"NPFX", "NSFX", "NICK", "DATE", "PLAC", "ADDR", "CAUS", "AGE", "FILE", "FORM",
     "TITL", "PAGE"}

\* case labels whose effect is guarded by a wrapper field that is never defined
\* (data.given / record.given, record.text / record.note)
JsInertTags == {"GIVN", "SURN", "CONT", "CONC"}

\* case labels that write a data field the person and family views do not carry
JsOtherTags ==
    {"EDUC", "RELI", "RESI", "EVEN", "OBJE", "SOUR", "AUTH", "PUBL", "VERS", "CHAR",
     "GEDC", "LANG", "REFN", "RIN", "AFN", "CHAN"}

\* of those, the ones that return an object
JsOtherObjectTags == {"RESI", "EVEN", "GEDC", "CHAN"}

\* every case label of addToRecord
JsRecognizedTags ==
    {"NAME", "SEX", "OCCU", "TYPE", "HUSB", "WIFE", "CHIL", "FAMC", "FAMS", "NOTE"}
        \cup {"BIRT", "DEAT", "MARR", "DIV", "BURI", "BAPM", "CHR", "CONF", "GRAD",
              "EMIG", "IMMI", "NATU"}
        \cup JsWrapperTags \cup JsInertTags \cup JsOtherTags

\* createRecord(tag, xref, value): the wrapper's type and xref, and its data
JsCreateRecord(tag, xref, value) ==
    [type |-> tag, xref |-> xref, name |-> None, gender |-> None, events |-> {},
     occupation |-> None, husband |-> None, wife |-> None, children |-> <<>>,
     familyChild |-> None, familySpouse |-> <<>>, notes |-> <<>>,
     text |-> IF tag = "NOTE" THEN value ELSE None, unknown |-> EmptyMap]

\* value.startsWith('@')
IsRef(value) == StartsWithAt(value)

\* addToRecord(record, tag, value) on a record that has data: the record
\* afterwards, and whether an object was returned
JsAddToRecord(rec, tag, value) ==
    IF tag = "NAME"
    THEN [rec |-> [rec EXCEPT !.name = StripSlashes(value)], item |-> TRUE]
    ELSE IF tag = "SEX"
    THEN [rec |-> [rec EXCEPT !.gender = Gender(value)], item |-> FALSE]
    ELSE IF JsEventKey(tag) # None
    THEN [rec |-> [rec EXCEPT !.events = @ \cup {JsEventKey(tag)}], item |-> TRUE]
    ELSE IF tag = "OCCU"
    THEN [rec |-> [rec EXCEPT !.occupation = value], item |-> FALSE]
    ELSE IF tag = "TYPE"
    THEN [rec |-> [rec EXCEPT !.type = value], item |-> FALSE]
    ELSE IF tag = "HUSB"
    THEN [rec |-> [rec EXCEPT !.husband = value], item |-> FALSE]
    ELSE IF tag = "WIFE"
    THEN [rec |-> [rec EXCEPT !.wife = value], item |-> FALSE]
    ELSE IF tag = "CHIL"
    THEN [rec |-> [rec EXCEPT !.children = Append(@, value)], item |-> FALSE]
    ELSE IF tag = "FAMC"
    THEN [rec |-> [rec EXCEPT !.familyChild = value], item |-> FALSE]
    ELSE IF tag = "FAMS"
    THEN [rec |-> [rec EXCEPT !.familySpouse = Append(@, value)], item |-> FALSE]
    ELSE IF tag = "NOTE"
    THEN [rec |-> [rec EXCEPT !.notes =
                      Append(@, [kind |-> IF IsRef(value) THEN "ref" ELSE "text",
                                 v |-> value])],
          item |-> FALSE]
    ELSE IF tag \in JsRecognizedTags
    THEN [rec |-> rec,
          item |-> tag \in JsOtherObjectTags \/ (tag = "OBJE" /\ ~IsRef(value))]
    ELSE [rec |-> [rec EXCEPT !.unknown = MapSet(@, tag, value)], item |-> FALSE]

\* saveCurrentRecord(record): the maps afterwards
JsSaveCurrentRecord(ps) ==
    IF ~ps.hasCurrent THEN ps
    ELSE LET rec == ps.current
         IN  IF rec.type = "INDI"
             THEN [ps EXCEPT !.individuals = MapSet(@, rec.xref, rec)]
             ELSE IF rec.type = "FAM"
             THEN [ps EXCEPT !.families = MapSet(@, rec.xref, rec)]
             ELSE IF rec.type = "SOUR"
             THEN [ps EXCEPT !.sources = MapSet(@, rec.xref, rec)]
             ELSE IF rec.type = "OBJE"
             THEN [ps EXCEPT !.media = MapSet(@, rec.xref, rec)]
             ELSE IF rec.type = "NOTE"
             THEN [ps EXCEPT !.notes = MapSet(@, rec.xref, rec)]
             ELSE ps

\* while (recordStack.length > level) recordStack.pop()
PopTo(stack, level) == IF Len(stack) > level THEN SubSeq(stack, 1, level) ELSE stack

\* one iteration of the line loop of parse (js); the stack holds "record" for
\* the wrapper and the opening tag for each object returned by addToRecord,
\* none of which has a data field
JsReadLine(ps, l) ==
    LET p == ParseLine("js", l)
    IN  IF l.level < 0 THEN ps
        ELSE IF p.level = 0
        THEN [JsSaveCurrentRecord(ps) EXCEPT
                 !.hasCurrent = TRUE,
                 !.current = JsCreateRecord(p.tag, p.xref, p.value),
                 !.stack = <<"record">>]
        ELSE IF ~ps.hasCurrent THEN ps
        ELSE LET stack == PopTo(ps.stack, p.level)
             IN  IF Top(stack) # "record"
                 THEN [ps EXCEPT !.stack = stack]
                 ELSE LET r == JsAddToRecord(ps.current, p.tag, p.value)
                      IN  [ps EXCEPT !.current = r.rec,
                                     !.stack = IF r.item THEN Append(stack, p.tag)
                                               ELSE stack]

\* formatEventData(data.<key>): absent, or an event whose date and place are
\* null because no line ever writes into the event object
JsFormatEventData(rec, key) ==
    [present |-> key \in rec.events, date |-> None, place |-> None]

RECURSIVE JsResolveNotes(_, _)
\* resolveNotes(notes): references looked up in this.notes, falsy texts dropped
JsResolveNotes(notes, noteMap) ==
    IF notes = <<>> THEN <<>>
    ELSE LET n == Head(notes)
             t == IF n.kind = "ref"
                  THEN (IF MapHas(noteMap, n.v) THEN MapGet(noteMap, n.v).text ELSE "")
                  ELSE n.v
             rest == JsResolveNotes(Tail(notes), noteMap)
         IN  IF t = "" \/ t = None THEN rest ELSE <<t>> \o rest

\* the person object of buildFamilyTree before the families are processed
JsPersonOf(id, data, noteMap) ==
    [id |-> id,
     name |-> IF data.name # None THEN data.name ELSE "Unknown",
     gender |-> IF data.gender # None THEN data.gender ELSE "unknown",
     birth |-> JsFormatEventData(data, "birth"),
     death |-> JsFormatEventData(data, "death"),
     occupation |-> data.occupation,
     notes |-> JsResolveNotes(data.notes, noteMap),
     familyChild |-> data.familyChild, familySpouse |-> data.familySpouse,
     parents |-> <<>>, spouses |-> <<>>, children |-> <<>>]

\* the family data in the shape the linker reads
JsFamilyData(data) ==
    [husb |-> IF data.husband = "" THEN None ELSE data.husband,
     wife |-> IF data.wife = "" THEN None ELSE data.wife,
     chil |-> data.children,
     marr |-> IF "marriage" \in data.events THEN "MARR" ELSE None,
     div |-> IF "divorce" \in data.events THEN "DIV" ELSE None]

\* buildFamilyTree() on the maps the line loop filled
JsBuildFromLines(ps) ==
    LET individuals == ps.individuals
        families == [i \in DOMAIN ps.families |->
                        [key |-> ps.families[i].key, val |-> JsFamilyData(ps.families[i].val)]]
        order == [i \in DOMAIN individuals |-> individuals[i].key]
        pm0 == [id \in MapKeys(individuals) |->
                   JsPersonOf(id, MapGet(individuals, id), ps.notes)]
        pm == JsLinkFamilies(pm0, families)
    IN  [people |-> PeopleList(order, pm),
         families |-> [i \in DOMAIN families |-> JsFamilyLink(families[i].key, families[i].val)],
         sources |-> [i \in DOMAIN ps.sources |-> ps.sources[i].key],
         media |-> [i \in DOMAIN ps.media |-> ps.media[i].key]]

(* ---- ts: createRecord / addToRecord / saveCurrentRecord ---- *)

Str(value) == [kind |-> "str", v |-> value]

\* the empty sub-record addToRecord creates for a tag without value
SubRecord == [kind |-> "obj", v |-> ""]

\* createRecord(tag, xref, value): { tag, xref }; fields are added under their
\* tags, notes is the lower-case notes array
TsCreateRecord(tag, xref, value) ==
    [tag |-> tag, xref |-> xref, fields |-> EmptyPeopleMap, notes |-> <<>>]

HasField(rec, tag) == tag \in DOMAIN rec.fields

SetField(rec, tag, f) ==
    [rec EXCEPT !.fields = [t \in DOMAIN rec.fields \cup {tag} |->
                               IF t = tag THEN f ELSE rec.fields[t]]]

\* the generic branch of addToRecord: first value a scalar, an array afterwards
TsStore(rec, tag, value) ==
    IF value # ""
    THEN IF ~HasField(rec, tag)
         THEN SetField(rec, tag, [isArray |-> FALSE, items |-> <<Str(value)>>])
         ELSE SetField(rec, tag, [isArray |-> TRUE,
                                  items |-> Append(rec.fields[tag].items, Str(value))])
    ELSE SetField(rec, tag,
                  [isArray |-> TRUE,
                   items |-> Append(IF HasField(rec, tag) THEN rec.fields[tag].items
                                    ELSE <<>>, SubRecord)])

\* addToRecord(parent, tag, value, level): the record afterwards, and whether
\* a sub-record was returned
TsAddToRecord(rec, tag, value, noteMap) ==
    IF tag = "NOTE" /\ value # "" /\ IsRef(value)
    THEN [rec |-> [rec EXCEPT !.notes =
                      Append(@, IF MapHas(noteMap, value) /\ MapGet(noteMap, value) # ""
                                THEN MapGet(noteMap, value) ELSE "")],
          item |-> FALSE]
    ELSE IF tag \in {"CONT", "CONC"}
    THEN [rec |-> IF rec.notes = <<>> THEN rec
                  ELSE [rec EXCEPT !.notes[Len(rec.notes)] =
                           IF tag = "CONT" THEN @ \o "\n" \o value ELSE @ \o value],
          item |-> FALSE]
    ELSE [rec |-> TsStore(rec, tag, value), item |-> value = ""]

\* extractValue(value): the string, or the first element when it is a string
ExtractValue(rec, tag) ==
    IF ~HasField(rec, tag) THEN None
    ELSE IF rec.fields[tag].items[1].kind = "str" THEN rec.fields[tag].items[1].v
    ELSE None

\* the string elements of a field, in order
StringItems(rec, tag) ==
    IF ~HasField(rec, tag) THEN <<>>
    ELSE LET items == rec.fields[tag].items
             keep == SelectSeq(items, LAMBDA it : it.kind = "str")
         IN  [i \in DOMAIN keep |-> keep[i].v]

\* String(x) of an element: a sub-record prints as [object Object]
ItemString(it) == IF it.kind = "str" THEN it.v ELSE "[object Object]"

RECURSIVE JoinItems(_, _)
\* items.join(sep)
JoinItems(items, sep) ==
    IF items = <<>> THEN ""
    ELSE IF Len(items) = 1 THEN ItemString(items[1])
    ELSE ItemString(items[1]) \o sep \o JoinItems(Tail(items), sep)

\* String(record[tag]) where the code uses the field as one id
FieldString(rec, tag) ==
    IF ~HasField(rec, tag) THEN None
    ELSE IF ~rec.fields[tag].isArray THEN rec.fields[tag].items[1].v
    ELSE JoinItems(rec.fields[tag].items, ",")

\* Array.isArray(x) ? x : [x], each element as String(x)
FieldList(rec, tag) ==
    IF ~HasField(rec, tag) THEN <<>>
    ELSE [i \in DOMAIN rec.fields[tag].items |-> ItemString(rec.fields[tag].items[i])]

\* extractNoteText(record)
ExtractNoteText(rec) ==
    IF ~HasField(rec, "NOTE") THEN ""
    ELSE IF ~rec.fields["NOTE"].isArray THEN rec.fields["NOTE"].items[1].v
    ELSE JoinItems(rec.fields["NOTE"].items, " ")

\* saveCurrentRecord(record)
TsSaveCurrentRecord(ps) ==
    IF ~ps.hasCurrent THEN ps
    ELSE LET rec == ps.current
         IN  IF rec.xref = None THEN ps
             ELSE IF rec.tag = "INDI"
             THEN [ps EXCEPT !.individuals = MapSet(@, rec.xref, rec)]
             ELSE IF rec.tag = "FAM"
             THEN [ps EXCEPT !.families = MapSet(@, rec.xref, rec)]
             ELSE IF rec.tag = "SOUR"
             THEN [ps EXCEPT !.sources = MapSet(@, rec.xref, rec)]
             ELSE IF rec.tag = "OBJE"
             THEN [ps EXCEPT !.media = MapSet(@, rec.xref, rec)]
             ELSE IF rec.tag = "NOTE"
             THEN [ps EXCEPT !.notes = MapSet(@, rec.xref, ExtractNoteText(rec))]
             ELSE ps

\* one iteration of the line loop of parse (ts).  After the pop the stack is
\* never longer than the level, so `level < recordStack.length` is false and
\* nothing but the record itself is ever on the stack
TsReadLine(ps, l) ==
    LET p == ParseLine("ts", l)
    IN  IF l.level < 0 THEN ps
        ELSE IF p.level = 0
        THEN [TsSaveCurrentRecord(ps) EXCEPT
                 !.hasCurrent = TRUE,
                 !.current = TsCreateRecord(p.tag, p.xref, p.value),
                 !.stack = <<"record">>]
        ELSE IF ~ps.hasCurrent THEN ps
        ELSE LET stack == PopTo(ps.stack, p.level)
                 r == TsAddToRecord(ps.current, p.tag, p.value, ps.notes)
             IN  [ps EXCEPT !.current = r.rec,
                            !.stack = IF r.item /\ p.level < Len(stack)
                                      THEN Append(stack, p.tag) ELSE stack]

\* extractEvent(record[tag]) without the dateObject
TsExtractEvent(rec, tag) ==
    IF ~HasField(rec, tag) THEN [present |-> FALSE, date |-> None, place |-> None]
    ELSE LET first == rec.fields[tag].items[1]
         IN  [present |-> TRUE,
              date |-> IF first.kind = "str" THEN first.v ELSE None,
              place |-> None]

\* extractName(record): NAME is a string, or an array whose first element is
\* a string or an empty sub-record
TsExtractName(rec) ==
    IF ~HasField(rec, "NAME") THEN "Unknown"
    ELSE LET first == rec.fields["NAME"].items[1]
         IN  IF first.kind = "str" THEN StripSlashes(first.v) ELSE "Unknown"

\* the individual record in the shape convertIndividual's link loops read
TsIndiData(rec) ==
    [sex |-> ExtractValue(rec, "SEX"), fams |-> FieldList(rec, "FAMS"),
     famc |-> FieldList(rec, "FAMC")]

\* the family record in the shape convertIndividual / convertFamily read
TsFamilyData(rec) ==
    [husb |-> FieldString(rec, "HUSB"), wife |-> FieldString(rec, "WIFE"),
     chil |-> FieldList(rec, "CHIL"),
     marr |-> IF HasField(rec, "MARR") THEN "MARR" ELSE None,
     div |-> IF HasField(rec, "DIV") THEN "DIV" ELSE None]

\* convertIndividual(record, id)
TsPersonOf(rec, key, families) ==
    LET links == TsConvertIndividual(TsIndiData(rec), key, families)
    IN  [id |-> links.id, name |-> TsExtractName(rec), gender |-> links.gender,
         birth |-> TsExtractEvent(rec, "BIRT"), death |-> TsExtractEvent(rec, "DEAT"),
         occupation |-> ExtractValue(rec, "OCCU"),
         notes |-> StringItems(rec, "NOTE"),
         parents |-> links.parents, spouses |-> links.spouses, children |-> links.children]

\* convertToStructuredData() on the maps the line loop filled
TsConvertFromLines(ps) ==
    LET families == [i \in DOMAIN ps.families |->
                        [key |-> ps.families[i].key, val |-> TsFamilyData(ps.families[i].val)]]
        named == SelectSeq(ps.individuals, LAMBDA e : TsExtractName(e.val) # "")
    IN  [people |-> [i \in DOMAIN named |-> TsPersonOf(named[i].val, named[i].key, families)],
         families |-> [i \in DOMAIN families |->
                          TsConvertFamily(families[i].val, families[i].key)],
         sources |-> [i \in DOMAIN ps.sources |-> AddAt(ps.sources[i].key)],
         media |-> [i \in DOMAIN ps.media |-> AddAt(ps.media[i].key)]]

(* ---- parse(content) ---- *)

\* a parser as constructed
NewParser ==
    [phase |-> "idle", lines |-> <<>>, next |-> 1, hasCurrent |-> FALSE,
     current |-> JsCreateRecord("", None, ""), stack |-> <<>>,
     individuals |-> EmptyMap, families |-> EmptyMap, sources |-> EmptyMap,
     media |-> EmptyMap, notes |-> EmptyMap]

\* parse(content) up to the line loop: the ts port clears its maps, the js
\* parser keeps what earlier calls stored
BeginParse(v, ps, lines) ==
    LET ps1 == IF v = "ts"
               THEN [ps EXCEPT !.individuals = EmptyMap, !.families = EmptyMap,
                               !.sources = EmptyMap, !.media = EmptyMap,
                               !.notes = EmptyMap]
               ELSE ps
    IN  [ps1 EXCEPT !.phase = "reading", !.lines = lines, !.next = 1,
                    !.hasCurrent = FALSE, !.stack = <<>>]

\* a line loop in which a line that does not match closes the open sub-records
ReadLineClosing(v, ps, l) ==
    IF l.level < 0 /\ ps.hasCurrent THEN [ps EXCEPT !.stack = <<"record">>]
    ELSE IF v = "js" THEN JsReadLine(ps, l) ELSE TsReadLine(ps, l)

ReadLine(v, ps, l) == IF v = "js" THEN JsReadLine(ps, l) ELSE TsReadLine(ps, l)

\* the last saveCurrentRecord
EndParse(v, ps) ==
    [(IF v = "js" THEN JsSaveCurrentRecord(ps) ELSE TsSaveCurrentRecord(ps))
        EXCEPT !.phase = "idle"]

\* what parse returns from the maps
BuildResult(v, ps) == IF v = "js" THEN JsBuildFromLines(ps) ELSE TsConvertFromLines(ps)

RECURSIVE ReadLines(_, _, _)
ReadLines(v, ps, lines) ==
    IF lines = <<>> THEN ps ELSE ReadLines(v, ReadLine(v, ps, Head(lines)), Tail(lines))

\* parse(content) on a parser in state ps: the parser afterwards
ParserAfter(v, ps, lines) == EndParse(v, ReadLines(v, BeginParse(v, ps, lines), lines))

\* parse(content) on a new parser
ParseLines(v, lines) == BuildResult(v, ParserAfter(v, NewParser, lines))

-----------------------------------------------------------------------------
(* Line specification: one text is parsed line by line *)

\* 0 @I1@ INDI
IndiHeader == Line(0, AddAt("I1"), "INDI", "")

\* the lines a record body is drawn from
BodyLines ==
    {Line(1, None, "NAME", "John /Smith/"), Line(1, None, "SEX", "M"),
     Line(1, None, "BIRT", ""), Line(2, None, "DATE", "1900"),
     Line(1, None, "NOTE", "First note"), Line(2, None, "NOTE", "born at home"),
     Line(1, None, "FAMS", AddAt("F1")), Line(2, None, "TYPE", "x"),
     Line(1, None, "_MILT", "Army"), Line(1, None, "_FLAG", ""),
     Line(2, None, "_UID", "abc")}

\* what may follow the record: nothing, or a spouse and the family of both
FamilyTail ==
    <<Line(0, AddAt("I2"), "INDI", ""), Line(1, None, "SEX", "F"),
      Line(0, AddAt("F1"), "FAM", ""), Line(1, None, "HUSB", AddAt("I1")),
      Line(1, None, "WIFE", AddAt("I2")), Line(1, None, "MARR", "")>>

Texts ==
    {<<IndiHeader>> \o body \o tail :
        body \in SeqsUpTo(BodyLines, MaxBody), tail \in {<<>>, FamilyTail}}

InitLines ==
    /\ variant \in Variants
    /\ parser = NewParser
    /\ file = NoFile
    /\ parsed = NoData
    /\ store = EmptyStore
    /\ pc = "start"
    /\ nloads = 0
    /\ FlowIdle
    /\ QueryIdle

\* parse(content) is called
StartParse(lines) ==
    /\ pc = "start"
    /\ parser.phase = "idle"
    /\ parser' = BeginParse(variant, parser, lines)
    /\ pc' = "parsing"
    /\ UNCHANGED <<variant, store, file, parsed, nloads, flowVars, queryVars>>

\* one iteration of the line loop
NextLine ==
    /\ parser.phase = "reading"
    /\ parser.next <= Len(parser.lines)
    /\ parser' = [ReadLine(variant, parser, parser.lines[parser.next]) EXCEPT
                     !.next = parser.next + 1]
    /\ UNCHANGED <<variant, store, file, parsed, pc, nloads, flowVars, queryVars>>

\* the loop is over: the last record is saved and the result is built
FinishParse ==
    /\ pc = "parsing"
    /\ parser.phase = "reading"
    /\ parser.next > Len(parser.lines)
    /\ parser' = EndParse(variant, parser)
    /\ parsed' = BuildResult(variant, parser')
    /\ pc' = "parsed"
    /\ UNCHANGED <<variant, store, file, nloads, flowVars, queryVars>>

NextLines == (\E lines \in Texts : StartParse(lines)) \/ NextLine \/ FinishParse

SpecLines == InitLines /\ [][NextLines]_vars

-----------------------------------------------------------------------------
(* Claims about the line loop *)

\* the tags the ts port reads from a record
TsReadTags ==
    {"NAME", "GIVN", "SURN", "SEX", "BIRT", "DEAT", "BAPM", "OCCU", "EDUC", "NOTE",
     "CONT", "CONC", "OBJE", "FILE", "FORM", "TITL", "TYPE", "AUTH", "PUBL", "TEXT",
     "DATE", "PLAC", "FAMS", "FAMC", "HUSB", "WIFE", "CHIL", "MARR", "DIV"}

\* a line whose tag is not in the recognized set
UnknownTagLine(v, l) ==
    /\ l.level > 0
    /\ l.tag \notin (IF v = "js" THEN JsRecognizedTags ELSE TsReadTags)

RemoveAt(lines, k) == SubSeq(lines, 1, k - 1) \o SubSeq(lines, k + 1, Len(lines))

\* C14: a line with an unrecognized tag does not change any field of the
\* parse result: the people, families, sources and media are the same as
\* for the text without that line.
C14_UnknownTagChangesNothing ==
    pc = "parsed" =>
        \A k \in DOMAIN parser.lines :
            UnknownTagLine(variant, parser.lines[k]) =>
                parsed = ParseLines(variant, RemoveAt(parser.lines, k))

-----------------------------------------------------------------------------
(* parseDate.  A date text is the sequence of its characters, so that the   *)
(* prefix tests and the regular-expression searches are computed on the     *)
(* text as the code computes them.                                          *)

LowerLetters == <<"a","b","c","d","e","f","g","h","i","j","k","l","m",
                  "n","o","p","q","r","s","t","u","v","w","x","y","z">>
UpperLetters == <<"A","B","C","D","E","F","G","H","I","J","K","L","M",
                  "N","O","P","Q","R","S","T","U","V","W","X","Y","Z">>

\* the character classes \d, [A-Z] and \s of the patterns
DigitChars == <<"0","1","2","3","4","5","6","7","8","9">>
Digit == {DigitChars[i] : i \in 1..10}
Capital == {UpperLetters[i] : i \in 1..26}
Space == {" "}

DigitValue(c) == (CHOOSE i \in 1..10 : DigitChars[i] = c) - 1

\* dateString.toUpperCase()
UpperChar(c) ==
    IF \E i \in 1..26 : LowerLetters[i] = c
    THEN UpperLetters[CHOOSE i \in 1..26 : LowerLetters[i] = c]
    ELSE c
UpperText(s) == [i \in 1..Len(s) |-> UpperChar(s[i])]

\* working.startsWith(word)
StartsWithText(s, word) == Len(s) >= Len(word) /\ SubSeq(s, 1, Len(word)) = word

\* the character at position i is of class cls
At(s, i, cls) == i >= 1 /\ i <= Len(s) /\ s[i] \in cls

\* n characters of class cls from position i on
AllAt(s, i, n, cls) == \A k \in 0..(n - 1) : At(s, i + k, cls)

\* the number of characters of class cls from position i on (a greedy cls*)
RECURSIVE Run(_, _, _)
Run(s, i, cls) == IF At(s, i, cls) THEN 1 + Run(s, i + 1, cls) ELSE 0

\* parseInt(digits, 10) of the n digits from position i on
RECURSIVE Number(_, _, _)
Number(s, i, n) ==
    IF n = 0 THEN 0 ELSE Number(s, i, n - 1) * 10 + DigitValue(s[i + n - 1])

\* working.replace(/^WORD\.?\s*/i, ''); the ABOUT alternative has no \.?
StripModifier(s, word, dot) ==
    LET n == Len(word)
        d == IF dot /\ At(s, n + 1, {"."}) THEN 1 ELSE 0
        w == Run(s, n + d + 1, Space)
    IN  SubSeq(s, n + d + w + 1, Len(s))

ABT == <<"A", "B", "T">>
ABOUT == <<"A", "B", "O", "U", "T">>
EST == <<"E", "S", "T">>
CAL == <<"C", "A", "L">>
BEF == <<"B", "E", "F">>
AFT == <<"A", "F", "T">>
BET == <<"B", "E", "T">>

\* an empty numeric field (null in timeline.js, undefined in gedcom-parser.ts) is
\* <<>>, a set one is <<n>>
Empty == <<>>

\* the months table; months[name] || null
MonthNames ==
    << <<"J","A","N">>, <<"F","E","B">>, <<"M","A","R">>, <<"A","P","R">>,
       <<"M","A","Y">>, <<"J","U","N">>, <<"J","U","L">>, <<"A","U","G">>,
       <<"S","E","P">>, <<"O","C","T">>, <<"N","O","V">>, <<"D","E","C">> >>
MonthOf(name) ==
    IF \E m \in 1..12 : MonthNames[m] = name
    THEN << CHOOSE m \in 1..12 : MonthNames[m] = name >>
    ELSE Empty

\* the leftmost position satisfying Match, 0 when there is none (String.match
\* without the g flag returns the leftmost match)
Leftmost(s, Match(_)) ==
    IF \E i \in 1..Len(s) : Match(i)
    THEN CHOOSE i \in 1..Len(s) : Match(i) /\ \A j \in 1..(i - 1) : ~Match(j)
    ELSE 0

\* /(\d{4})/ at position i
YearAt(s, i) == AllAt(s, i, 4, Digit)

\* /([A-Z]{3})\s+(\d{4})/ at position i
MonthYearAt(s, i) ==
    /\ AllAt(s, i, 3, Capital)
    /\ Run(s, i + 3, Space) >= 1
    /\ AllAt(s, i + 3 + Run(s, i + 3, Space), 4, Digit)

\* length of the greedy \d{1,2} at position i (with two digits there the one-digit
\* alternative is followed by a digit, so it cannot be continued by \s+)
DayLen(s, i) == IF At(s, i + 1, Digit) THEN 2 ELSE 1

\* /(\d{1,2})\s+([A-Z]{3})\s+(\d{4})/ at position i
FullAt(s, i) ==
    /\ At(s, i, Digit)
    /\ Run(s, i + DayLen(s, i), Space) >= 1
    /\ MonthYearAt(s, i + DayLen(s, i) + Run(s, i + DayLen(s, i), Space))

\* timeline.js parseDate, the modifier chain: <<approximate, range, working>>
JsModifier(working) ==
    IF StartsWithText(working, ABT)
    THEN <<TRUE, None, StripModifier(working, ABT, TRUE)>>
    ELSE IF StartsWithText(working, ABOUT)
    THEN <<TRUE, None, StripModifier(working, ABOUT, FALSE)>>
    ELSE IF StartsWithText(working, EST)
    THEN <<TRUE, None, StripModifier(working, EST, TRUE)>>
    ELSE IF StartsWithText(working, CAL)
    THEN <<TRUE, None, StripModifier(working, CAL, TRUE)>>
    ELSE IF StartsWithText(working, BEF)
    THEN <<FALSE, "before", StripModifier(working, BEF, TRUE)>>
    ELSE IF StartsWithText(working, AFT)
    THEN <<FALSE, "after", StripModifier(working, AFT, TRUE)>>
    ELSE IF StartsWithText(working, BET)
    THEN <<FALSE, "between", StripModifier(working, BET, TRUE)>>
    ELSE <<FALSE, None, working>>

\* what parseDate returns for a missing or empty text
NullDate == [kind |-> "null"]

\* timeline.js parseDate
JsParseDate(dateString) ==
    IF dateString = <<>> THEN NullDate
    ELSE
        LET m == JsModifier(UpperText(dateString))
            working == m[3]
            full == Leftmost(working, LAMBDA i : FullAt(working, i))
            monthYear == Leftmost(working, LAMBDA i : MonthYearAt(working, i))
            year == Leftmost(working, LAMBDA i : YearAt(working, i))
            base == [kind |-> "object", original |-> dateString, year |-> Empty,
                     month |-> Empty, day |-> Empty, approximate |-> m[1],
                     range |-> m[2]]
        IN  IF full > 0
            THEN LET d == DayLen(working, full)
                     mon == full + d + Run(working, full + d, Space)
                     yr == mon + 3 + Run(working, mon + 3, Space)
                 IN  [base EXCEPT !.day = <<Number(working, full, d)>>,
                                  !.month = MonthOf(SubSeq(working, mon, mon + 2)),
                                  !.year = <<Number(working, yr, 4)>>]
            ELSE IF monthYear > 0
            THEN LET yr == monthYear + 3 + Run(working, monthYear + 3, Space)
                 IN  [base EXCEPT !.month =
                                      MonthOf(SubSeq(working, monthYear, monthYear + 2)),
                                  !.year = <<Number(working, yr, 4)>>]
            ELSE IF year > 0
            THEN [base EXCEPT !.year = <<Number(working, year, 4)>>]
            ELSE base

\* gedcom-parser.ts parseDate: the first four digits are the year, the first one
\* or two digits the month
TsParseDate(dateStr) ==
    IF dateStr = <<>> THEN NullDate
    ELSE
        LET yearMatch == Leftmost(dateStr, LAMBDA i : YearAt(dateStr, i))
            monthMatch == Leftmost(dateStr, LAMBDA i : At(dateStr, i, Digit))
        IN  [kind |-> "object",
             year |-> IF yearMatch > 0 THEN <<Number(dateStr, yearMatch, 4)>> ELSE Empty,
             month |-> IF monthMatch > 0
                       THEN <<Number(dateStr, monthMatch, DayLen(dateStr, monthMatch))>>
                       ELSE Empty,
             full |-> dateStr]

ParseDate(v, text) == IF v = "js" THEN JsParseDate(text) ELSE TsParseDate(text)

\* the date texts drawn: a modifier, or none, followed by a body
DatePrefixes ==
    {
     <<>>,  \* ""
     <<"A", "B", "T", " ">>,  \* "ABT "
     <<"a", "b", "t", " ">>,  \* "abt "
     <<"A", "B", "O", "U", "T", " ">>,  \* "ABOUT "
     <<"E", "s", "t", " ">>,  \* "Est "
     <<"C", "A", "L", " ">>,  \* "CAL "
     <<"b", "e", "f", " ">>,  \* "bef "
     <<"A", "F", "T", " ">>,  \* "AFT "
     <<"B", "E", "T", " ">>,  \* "BET "
     <<"B", "e", "t", ".", " ">>  \* "Bet. "
    }
DateBodies ==
    {
     <<>>,  \* ""
     <<"1", "8", "9", "0">>,  \* "1890"
     <<"1", "9", "6", "5">>,  \* "1965"
     <<"J", "A", "N", " ", "1", "9", "0", "0">>,  \* "JAN 1900"
     <<"1", "5", " ", "M", "A", "R", " ", "1", "9", "0", "0">>,  \* "15 MAR 1900"
     <<"1", "9", "2", "0", " ", "A", "N", "D", " ", "1", "9", "2", "5">>,  \* "1920 AND 1925"
     <<"1", "8", "5", "0", " ", "A", "N", "D", " ", "1", "9", "0", "0">>,  \* "1850 AND 1900"
     <<"u", "n", "k", "n", "o", "w", "n">>,  \* "unknown"
     <<"1", "2", " ", "X", "Y", "Z">>  \* "12 XYZ"
    }
DateTexts == {p \o b : p \in DatePrefixes, b \in DateBodies}

InitDate ==
    /\ variant \in Variants
    /\ file = NoFile
    /\ parsed = NoData
    /\ store = EmptyStore
    /\ pc = "start"
    /\ nloads = 0
    /\ parser = NoParser
    /\ FlowIdle
    /\ QueryIdle

\* one parseDate call
CallParseDate(text) ==
    /\ call' = [fn |-> "parseDate", input |-> text, result |-> ParseDate(variant, text)]
    /\ UNCHANGED <<variant, store, linkVars, flowVars, trav, rel>>

NextDate == \E text \in DateTexts : CallParseDate(text)

SpecDate == InitDate /\ [][NextDate]_vars

\* a numeric field of a returned date; a field the object does not carry is empty
DateField(r, f) == IF f \in DOMAIN r THEN r[f] ELSE Empty

IsApproximate(r) == "approximate" \in DOMAIN r /\ r.approximate = TRUE

RangeOf(r) == IF "range" \in DOMAIN r THEN r.range ELSE None

\* the returned date carries the text it was parsed from
Preserved(r, text) ==
    \/ "original" \in DOMAIN r /\ r.original = text
    \/ "full" \in DOMAIN r /\ r.full = text

\* the text contains a year shape; the month-year and the day-month-year shapes
\* contain one too
HasYearShape(text) == \E i \in 1..Len(text) : YearAt(text, i)

LeadingWord(text, words) == \E w \in words : StartsWithText(UpperText(text), w)

OnlyYear(r, y) ==
    /\ DateField(r, "year") = <<y>>
    /\ DateField(r, "month") = Empty
    /\ DateField(r, "day") = Empty

ABT1890 == <<"A", "B", "T", " ", "1", "8", "9", "0">>
BARE1965 == <<"1", "9", "6", "5">>

\* C15: parseDate returns a date object for every non-empty text; "ABT 1890" gives
\* approximate with year 1890 and no month or day; "1965" gives year 1965 and no
\* month or day; a text without any year shape gives no numeric field and keeps
\* the text; a leading ABT/EST/CAL (any case) sets approximate, a leading
\* BEF/AFT/BET sets range to before/after/between.
C15_ParseDateContract ==
    (call.fn = "parseDate" /\ call.input # <<>>) =>
        LET r == call.result
            t == call.input
        IN  /\ r.kind = "object"
            /\ t = ABT1890 => IsApproximate(r) /\ OnlyYear(r, 1890)
            /\ t = BARE1965 => OnlyYear(r, 1965)
            /\ ~HasYearShape(t) =>
                   /\ DateField(r, "year") = Empty
                   /\ DateField(r, "month") = Empty
                   /\ DateField(r, "day") = Empty
                   /\ Preserved(r, t)
            /\ LeadingWord(t, {ABT, EST, CAL}) => IsApproximate(r)
            /\ LeadingWord(t, {BEF}) => RangeOf(r) = "before"
            /\ LeadingWord(t, {AFT}) => RangeOf(r) = "after"
            /\ LeadingWord(t, {BET}) => RangeOf(r) = "between"

\* the text is "BET <year1> AND <year2>"
BetweenForm(text) ==
    /\ Len(text) = 17
    /\ SubSeq(text, 1, 4) = BET \o <<" ">>
    /\ AllAt(text, 5, 4, Digit)
    /\ SubSeq(text, 9, 13) = <<" ", "A", "N", "D", " ">>
    /\ AllAt(text, 14, 4, Digit)

\* C16: for "BET <year1> AND <year2>" parseDate returns a date object whose range
\* is between and whose year is year1, with no day and no month.
C16_BetweenKeepsFirstYear ==
    (call.fn = "parseDate" /\ BetweenForm(call.input)) =>
        /\ call.result.kind = "object"
        /\ RangeOf(call.result) = "between"
        /\ OnlyYear(call.result, Number(call.input, 5, 4))

-----------------------------------------------------------------------------
(* getTimelineEvents *)

\* an Event as the store reads it: present or not, and its dateObject.year
EventOf(present, year) == [present |-> present, year |-> year]
NoEvent == EventOf(FALSE, Empty)

\* ev && ev.dateObject && ev.dateObject.year
YearKnown(ev) == ev.present /\ ev.year # Empty /\ ev.year # <<0>>

TimelineEvent(type, person, spouse, year) ==
    [type |-> type, person |-> person, spouse |-> spouse, year |-> year]

RECURSIVE MarriageEvents(_, _, _)
\* person.spouses.forEach(spouse => ...)
MarriageEvents(st, person, entries) ==
    IF entries = <<>> THEN <<>>
    ELSE LET spouse == Head(entries)
             rest == MarriageEvents(st, person, Tail(entries))
         IN  IF YearKnown(spouse.marriage)
                /\ HasPerson(st, spouse.person) /\ person.gender = "male"
             THEN <<TimelineEvent("marriage", person.id, spouse.person,
                                  spouse.marriage.year[1])>> \o rest
             ELSE rest

\* the body of this.people.forEach(person => ...); no person of the stores drawn
\* carries an events list, which only family-data.js reads
PersonEvents(st, person) ==
    (IF YearKnown(person.birth)
     THEN <<TimelineEvent("birth", person.id, None, person.birth.year[1])>> ELSE <<>>)
    \o (IF YearKnown(person.death)
        THEN <<TimelineEvent("death", person.id, None, person.death.year[1])>> ELSE <<>>)
    \o MarriageEvents(st, person, person.spouses)

RECURSIVE CollectEvents(_, _)
CollectEvents(st, people) ==
    IF people = <<>> THEN <<>>
    ELSE PersonEvents(st, Head(people)) \o CollectEvents(st, Tail(people))

RECURSIVE InsertByYear(_, _)
InsertByYear(sorted, e) ==
    IF sorted = <<>> THEN <<e>>
    ELSE IF Head(sorted).year > e.year THEN <<e>> \o sorted
    ELSE <<Head(sorted)>> \o InsertByYear(Tail(sorted), e)

RECURSIVE SortByYear(_)
\* events.sort((a, b) => a.year - b.year): stable, ascending
SortByYear(events) ==
    IF events = <<>> THEN <<>>
    ELSE InsertByYear(SortByYear(SubSeq(events, 1, Len(events) - 1)),
                      events[Len(events)])

GetTimelineEvents(st) == SortByYear(CollectEvents(st, st.people))

\* a person of a timeline store
TimelinePerson(id, gender, birth, spouses) ==
    [id |-> id, gender |-> gender, parents |-> <<>>, spouses |-> spouses,
     children |-> <<>>, birth |-> birth, death |-> NoEvent]

TimelineFamily(id, husband, wife, marriage) ==
    [id |-> id, husband |-> husband, wife |-> wife, children |-> <<>>,
     marriage |-> marriage, divorce |-> NoEvent]

Genders == {"male", "female", "unknown"}

\* the marriage of the first family: none, one without a year, one in 1920
MarriageChoices == {NoEvent, EventOf(TRUE, Empty), EventOf(TRUE, <<1920>>)}

\* the marriage of the second family
EarlierMarriage == EventOf(TRUE, <<1910>>)

\* family F1 of I1 and I2 as linked data; with `repeated` I1 lists I2 twice, with
\* `second` there is a family F2 of I1 and I3 married in 1910
TimelineData(g1, g2, marriage, repeated, second) ==
    LET i1 == AddAt("I1")
        i2 == AddAt("I2")
        i3 == AddAt("I3")
        e12 == SpouseEntry(i2, marriage, NoEvent)
        e13 == SpouseEntry(i3, EarlierMarriage, NoEvent)
    IN  [people |->
            <<TimelinePerson(i1, g1, EventOf(TRUE, <<1915>>),
                             <<e12>> \o (IF repeated THEN <<e12>> ELSE <<>>)
                                 \o (IF second THEN <<e13>> ELSE <<>>)),
              TimelinePerson(i2, g2, NoEvent, <<SpouseEntry(i1, marriage, NoEvent)>>)>>
            \o (IF second
                THEN <<TimelinePerson(i3, "female", NoEvent,
                                      <<SpouseEntry(i1, EarlierMarriage, NoEvent)>>)>>
                ELSE <<>>),
         families |->
            <<TimelineFamily(AddAt("F1"), i1, i2, marriage)>>
            \o (IF second THEN <<TimelineFamily(AddAt("F2"), i1, i3, EarlierMarriage)>>
                ELSE <<>>),
         sources |-> <<>>, media |-> <<>>]

TimelineStores(v) ==
    {LoadFromGedcom(v, EmptyStore, TimelineData(g1, g2, m, r, s)).store :
        g1 \in Genders, g2 \in Genders, m \in MarriageChoices,
        r \in BOOLEAN, s \in BOOLEAN}

InitTimeline ==
    /\ variant \in Variants
    /\ store \in TimelineStores(variant)
    /\ file = NoFile
    /\ parser = NoParser
    /\ parsed = NoData
    /\ pc = "query"
    /\ nloads = 0
    /\ FlowIdle
    /\ QueryIdle

\* one getTimelineEvents call
CallGetTimelineEvents ==
    /\ call' = [fn |-> "getTimelineEvents", input |-> <<>>,
                result |-> GetTimelineEvents(store)]
    /\ UNCHANGED <<variant, store, linkVars, flowVars, trav, rel>>

NextTimeline == CallGetTimelineEvents

SpecTimeline == InitTimeline /\ [][NextTimeline]_vars

\* the marriage events of the result that join the two spouses of family f
MarriagesOf(events, f) ==
    {i \in DOMAIN events :
        /\ events[i].type = "marriage"
        /\ {events[i].person, events[i].spouse} = {f.husband, f.wife}}

\* C17: for every family of the store with both spouses stored and a known
\* marriage year, getTimelineEvents returns exactly one marriage event of the
\* couple, on a male spouse, when one of the two is recorded male, and none when
\* neither is.
C17_OneMarriagePerFamily ==
    call.fn = "getTimelineEvents" =>
        \A k \in DOMAIN store.families :
            LET f == store.families[k]
                ms == MarriagesOf(call.result, f)
            IN  (YearKnown(f.marriage) /\ HasPerson(store, f.husband)
                                       /\ HasPerson(store, f.wife)) =>
                    IF "male" \in {GetPerson(store, f.husband).gender,
                                   GetPerson(store, f.wife).gender}
                    THEN /\ Cardinality(ms) = 1
                         /\ \A i \in ms :
                               GetPerson(store, call.result[i].person).gender = "male"
                    ELSE ms = {}

-----------------------------------------------------------------------------
(* Claims about the path calculateRelationship returns *)

\* the stored edges of a person in the order the claim states: its parents, then
\* its children, then its spouses
StatedEdges(st, id) ==
    LET p == GetPerson(st, id)
    IN  [i \in DOMAIN p.parents |-> [id |-> p.parents[i], type |-> "parent"]]
            \o [i \in DOMAIN p.children |-> [id |-> p.children[i], type |-> "child"]]
            \o [i \in DOMAIN p.spouses |-> [id |-> p.spouses[i].person, type |-> "spouse"]]

MaxStatedEdges(st) ==
    LET sizes == {Len(StatedEdges(st, id)) : id \in DOMAIN st.peopleMap} \cup {0}
    IN  CHOOSE n \in sizes : \A m \in sizes : m <= n

\* the chains to try: which edge of the person reached is taken at each step; a
\* chain that repeats no person has at most as many edges as the store has persons
EdgeChoices(st) ==
    UNION {[1..n -> 1..MaxStatedEdges(st)] : n \in 1..Cardinality(DOMAIN st.peopleMap)}

RECURSIVE IsChain(_, _, _)
\* every step takes an edge stored on the person it starts from
IsChain(st, from, choice) ==
    \/ choice = <<>>
    \/ /\ HasPerson(st, from)
       /\ Head(choice) \in DOMAIN StatedEdges(st, from)
       /\ IsChain(st, StatedEdges(st, from)[Head(choice)].id, Tail(choice))

RECURSIVE ChainPath(_, _, _)
ChainPath(st, from, choice) ==
    IF choice = <<>> THEN <<>>
    ELSE LET e == StatedEdges(st, from)[Head(choice)]
         IN  <<e>> \o ChainPath(st, e.id, Tail(choice))

\* the chains of stored edges from a to b
ChainsBetween(st, a, b) ==
    {c \in EdgeChoices(st) :
        IsChain(st, a, c) /\ ChainPath(st, a, c)[Len(c)].id = b}

\* c comes before d when it is shorter, or as long and takes the earlier edge at
\* the first step where they differ
ComesBefore(c, d) ==
    \/ Len(c) < Len(d)
    \/ /\ Len(c) = Len(d)
       /\ \/ c = d
          \/ \E k \in DOMAIN c :
                /\ c[k] < d[k]
                /\ \A j \in 1..(k - 1) : c[j] = d[j]

\* C18: for two different persons joined by a chain of stored edges,
\* calculateRelationship returns a chain of stored edges from the first to the
\* second that no chain is shorter than, and among the shortest ones the first
\* with parents taken before children before spouses.
C18_FirstShortestChain ==
    (rel.a # None /\ rel.a # rel.b /\ ChainsBetween(store, rel.a, rel.b) # {}) =>
        \E c \in ChainsBetween(store, rel.a, rel.b) :
            /\ rel.path = ChainPath(store, rel.a, c)
            /\ \A d \in ChainsBetween(store, rel.a, rel.b) : ComesBefore(c, d)

\* the call has returned a two-edge path where two different two-edge chains and
\* a three-edge chain join the two persons
C18_Witness ==
    /\ rel.a # None
    /\ Len(rel.path) = 2
    /\ \E c, d \in ChainsBetween(store, rel.a, rel.b) :
          Len(c) = 2 /\ Len(d) = 2 /\ c # d
    /\ \E c \in ChainsBetween(store, rel.a, rel.b) : Len(c) = 3

-----------------------------------------------------------------------------
(* describeRelationship on paths of any shape *)

StepTypes == {"parent", "child", "spouse"}

\* a path of one step type; the ids on a path are not read by describeRelationship
StepsOf(type, n) == [i \in 1..n |-> Conn(AddAt("I1"), type)]

\* the paths drawn: every sequence of step types up to MaxPath steps, and the
\* paths of up to MaxSteps parent steps followed by up to MaxSteps child steps,
\* with or without a closing spouse step
LabelPaths ==
    UNION {{[i \in 1..n |-> Conn(AddAt("I1"), types[i])] : types \in [1..n -> StepTypes]}
           : n \in 0..MaxPath}
    \cup {StepsOf("parent", p) \o StepsOf("child", c) \o StepsOf("spouse", s) :
            p \in 0..MaxSteps, c \in 0..MaxSteps, s \in 0..1}

InitLabel ==
    /\ variant = "js"
    /\ store = EmptyStore
    /\ file = NoFile
    /\ parser = NoParser
    /\ parsed = NoData
    /\ pc = "query"
    /\ nloads = 0
    /\ FlowIdle
    /\ QueryIdle

\* one describeRelationship call
CallDescribeRelationship(path) ==
    /\ call' = [fn |-> "describeRelationship", input |-> path,
                result |-> DescribeRelationship(path)]
    /\ UNCHANGED <<variant, store, linkVars, flowVars, trav, rel>>

\* one call is followed per behaviour
NextLabel == call = NoCall /\ \E path \in LabelPaths : CallDescribeRelationship(path)

SpecLabel == InitLabel /\ [][NextLabel]_vars

\* the number of steps of one type on a path
CountSteps(path, type) == Cardinality({i \in DOMAIN path : path[i].type = type})

\* "1st", "2nd", "3rd", then "<n>th"
Nth(n) ==
    IF n = 1 THEN "1st" ELSE IF n = 2 THEN "2nd" ELSE IF n = 3 THEN "3rd"
    ELSE ToString(n) \o "th"

GenericLabel(n) == "Related (" \o ToString(n) \o " steps)"

\* the label table of the claim for p parent steps, c child steps, spouse flag s
\* and path length n
TableLabel(p, c, s, n) ==
    CASE p = 1 /\ c = 0 -> IF s THEN "Parent's spouse" ELSE "Parent"
      [] p = 0 /\ c = 1 -> IF s THEN "Spouse's child" ELSE "Child"
      [] p = 2 /\ c = 0 -> "Grandparent"
      [] p = 0 /\ c = 2 -> "Grandchild"
      [] p = 3 /\ c = 0 -> "Great-grandparent"
      [] p = 0 /\ c = 3 -> "Great-grandchild"
      [] p = 1 /\ c = 1 -> "Sibling"
      [] p = 2 /\ c = 1 -> "Aunt/Uncle"
      [] p = 1 /\ c = 2 -> "Niece/Nephew"
      [] p = 2 /\ c = 2 -> "First cousin"
      [] OTHER ->
            LET m == IF p <= c THEN p ELSE c
                d == IF p <= c THEN c - p ELSE p - c
            IN  IF p > 0 /\ c > 0 /\ m >= 2
                THEN Nth(m - 1) \o " cousin"
                         \o (IF p # c THEN " " \o ToString(d) \o "x removed" ELSE "")
                ELSE GenericLabel(n)

\* C19 as stated: the label of every path is the one the table gives for its
\* parent steps, child steps and spouse flag, every case the table does not name
\* giving the generic label.
C19_TableForEveryPath ==
    call.fn = "describeRelationship" =>
        call.result = TableLabel(CountSteps(call.input, "parent"),
                                 CountSteps(call.input, "child"),
                                 CountSteps(call.input, "spouse") > 0,
                                 Len(call.input))

\* C19, amended: the empty path is labelled "Self" and the path of one spouse
\* step "Spouse"; every other path has the label the table gives for its parent
\* steps, child steps and spouse flag.
C19_TableBeyondSelfAndSpouse ==
    call.fn = "describeRelationship" =>
        call.result =
            IF call.input = <<>> THEN "Self"
            ELSE IF Len(call.input) = 1 /\ call.input[1].type = "spouse" THEN "Spouse"
            ELSE TableLabel(CountSteps(call.input, "parent"),
                            CountSteps(call.input, "child"),
                            CountSteps(call.input, "spouse") > 0,
                            Len(call.input))

\* a path of five parent steps, six child steps and a spouse step has been labelled
C19_Witness ==
    /\ call.fn = "describeRelationship"
    /\ CountSteps(call.input, "parent") = 5
    /\ CountSteps(call.input, "child") = 6
    /\ CountSteps(call.input, "spouse") = 1
    /\ call.result = "4th cousin 1x removed"

-----------------------------------------------------------------------------
(* Claims about the generation tags of a traversal *)

\* the number of edges of the shortest chain of `kind` edges from root to id, for
\* an id some chain of at most n edges reaches
Distance(st, kind, root, id, n) ==
    CHOOSE d \in 1..n :
        /\ id \in WithinHops(st, kind, {root}, d)
        /\ \A e \in 1..(d - 1) : id \notin WithinHops(st, kind, {root}, e)

\* C20: every entry a traversal returns is tagged with the number of edges of the
\* shortest parent (resp. child) chain from the root to its person; also when
\* chains of different lengths reach the person.
C20_TagIsShortestDistance ==
    trav.pc = "done" =>
        LET n == Cardinality(DOMAIN store.peopleMap)
        IN  \A i \in DOMAIN trav.result :
               /\ trav.result[i].id \in WithinHops(store, trav.kind, {trav.root}, n)
               /\ trav.result[i].generation =
                      Distance(store, trav.kind, trav.root, trav.result[i].id, n)

-----------------------------------------------------------------------------
(* Claims about nesting in the line loop *)

\* the persons of a parse result with the given id
PeopleWithId(data, id) == {i \in DOMAIN data.people : data.people[i].id = id}

\* line k opens the birth event of the first record and line k + 1 is its date
BirthWithDate(lines, k) ==
    /\ k + 1 <= Len(lines)
    /\ lines[k] = Line(1, None, "BIRT", "")
    /\ lines[k + 1] = Line(2, None, "DATE", "1900")
    /\ \A j \in 2..k : lines[j].level > 0

\* C21: when `1 BIRT` is followed by `2 DATE 1900`, the sub-record opened by BIRT
\* is on top of the stack when the DATE line is processed, and the birth event of
\* the resulting person carries that date.
C21_SubRecordReceivesItsLines ==
    \A k \in DOMAIN parser.lines :
        BirthWithDate(parser.lines, k) =>
            /\ (parser.phase = "reading" /\ parser.next = k + 1) =>
                   Top(parser.stack) = "BIRT"
            /\ pc = "parsed" =>
                   \A i \in PeopleWithId(parsed, AddAt("I1")) :
                       /\ parsed.people[i].birth.present
                       /\ parsed.people[i].birth.date = "1900"

-----------------------------------------------------------------------------
(* Note specification: texts with inline notes, continuation lines, note     *)
(* references and a level-0 NOTE record before or after the individual       *)

NoteBodyLines ==
    {Line(1, None, "NOTE", "First note"), Line(2, None, "CONT", "second line"),
     Line(2, None, "CONC", " and more"), Line(1, None, "NOTE", AddAt("N1")),
     Line(1, None, "NOTE", AddAt("N2")), Line(1, None, "OCCU", "Farmer")}

\* 0 @N1@ NOTE Shared text, alone or continued
NoteRecords ==
    {<<Line(0, AddAt("N1"), "NOTE", "Shared text")>>,
     <<Line(0, AddAt("N1"), "NOTE", "Shared text"), Line(1, None, "CONT", "continued")>>,
     <<Line(0, AddAt("N1"), "NOTE", "Shared text"), Line(1, None, "CONC", " goes on")>>}

NoteTexts ==
    UNION {{<<IndiHeader>> \o body} \cup
           UNION {{<<IndiHeader>> \o body \o rec, rec \o <<IndiHeader>> \o body}
                  : rec \in NoteRecords}
           : body \in SeqsUpTo(NoteBodyLines, MaxNoteBody)}

NextNotes == (\E lines \in NoteTexts : StartParse(lines)) \/ NextLine \/ FinishParse

SpecNotes == InitLines /\ [][NextNotes]_vars

\* line k + 1 continues line k
HasContinuation(lines, k) ==
    /\ k + 1 <= Len(lines)
    /\ lines[k + 1].level = lines[k].level + 1
    /\ lines[k + 1].tag \in {"CONT", "CONC"}

RECURSIVE Continued(_, _, _, _)
\* the text of a line at `level` joined with the continuation lines after line k
Continued(lines, k, level, text) ==
    IF k + 1 <= Len(lines) /\ lines[k + 1].level = level + 1
       /\ lines[k + 1].tag \in {"CONT", "CONC"}
    THEN Continued(lines, k + 1, level,
                   text \o (IF lines[k + 1].tag = "CONT" THEN "\n" ELSE "")
                        \o lines[k + 1].value)
    ELSE text

\* line k is a line of the individual @I1@
InIndividual(lines, k) ==
    \E h \in 1..(k - 1) :
        /\ lines[h] = IndiHeader
        /\ \A j \in (h + 1)..k : lines[j].level > 0

\* line k is the level-0 NOTE record with the given id
NoteRecordAt(lines, k, id) ==
    lines[k].level = 0 /\ lines[k].tag = "NOTE" /\ lines[k].xref = id

\* the notes the result reports for @I1@; no list when the person is missing
NotesOfFirst(data) ==
    {data.people[i].notes : i \in PeopleWithId(data, AddAt("I1"))}

\* C22: the notes of the person hold the text of an inline NOTE joined with the
\* CONT lines (after a newline) and CONC lines (directly) that follow it, and a
\* reference to a NOTE record reports that record's text joined the same way.
C22_ContinuationsAreJoined ==
    pc = "parsed" =>
        \A k \in DOMAIN parser.lines :
            LET lines == parser.lines
            IN  /\ (InIndividual(lines, k) /\ lines[k].tag = "NOTE" /\ lines[k].level = 1
                    /\ ~IsRef(lines[k].value) /\ HasContinuation(lines, k)) =>
                       /\ NotesOfFirst(parsed) # {}
                       /\ \A notes \in NotesOfFirst(parsed) :
                             Includes(notes, Continued(lines, k, 1, lines[k].value))
                /\ (NoteRecordAt(lines, k, AddAt("N1")) /\ HasContinuation(lines, k)
                    /\ \E j \in DOMAIN lines :
                          InIndividual(lines, j)
                          /\ lines[j] = Line(1, None, "NOTE", AddAt("N1"))) =>
                       /\ NotesOfFirst(parsed) # {}
                       /\ \A notes \in NotesOfFirst(parsed) :
                             Includes(notes, Continued(lines, k, 0, lines[k].value))

\* the texts of the inline NOTE lines of the text
InlineTexts(lines) ==
    {lines[k].value : k \in {j \in DOMAIN lines : lines[j].tag = "NOTE"
                                                   /\ ~IsRef(lines[j].value)}}

\* C23: a NOTE line whose value is @N1@ reports the text of the NOTE record @N1@,
\* wherever that record stands in the file; a reference to an id without NOTE
\* record adds no text, and the parse returns the person either way.
C23_ReferencesResolveInAnyOrder ==
    pc = "parsed" =>
        LET lines == parser.lines
        IN  \A k \in DOMAIN lines :
               (InIndividual(lines, k) /\ lines[k].tag = "NOTE" /\ IsRef(lines[k].value)) =>
                   /\ NotesOfFirst(parsed) # {}
                   /\ \A j \in DOMAIN lines :
                         (NoteRecordAt(lines, j, lines[k].value)
                          /\ ~HasContinuation(lines, j)) =>
                             \A notes \in NotesOfFirst(parsed) :
                                 Includes(notes, lines[j].value)
                   /\ (~\E j \in DOMAIN lines : lines[j].level = 0 /\ lines[j].tag = "NOTE") =>
                         \A notes \in NotesOfFirst(parsed) :
                             Range(notes) \subseteq InlineTexts(lines) \cup {""}

-----------------------------------------------------------------------------
(* Repetition specification: texts whose individual repeats value-bearing tags *)

RepeatBodyLines ==
    {Line(1, None, "OCCU", "Farmer"), Line(1, None, "OCCU", "Miller"),
     Line(1, None, "FAMC", AddAt("F1")), Line(1, None, "FAMC", AddAt("F2")),
     Line(1, None, "NOTE", "First note"), Line(1, None, "NOTE", "Second note"),
     Line(1, None, "SEX", "M")}

RepeatTexts == {<<IndiHeader>> \o body : body \in SeqsUpTo(RepeatBodyLines, MaxBody)}

NextRepeat == (\E lines \in RepeatTexts : StartParse(lines)) \/ NextLine \/ FinishParse

SpecRepeat == InitLines /\ [][NextRepeat]_vars

\* the values the lines of a text give to a tag, in order of appearance
ValuesOf(lines, tag) ==
    LET keep == SelectSeq(lines, LAMBDA l : l.level = 1 /\ l.tag = tag)
    IN  [i \in DOMAIN keep |-> keep[i].value]

\* the values a saved record holds for a tag, in order
Retained(v, rec, tag) ==
    IF v = "ts" THEN FieldList(rec, tag)
    ELSE IF tag = "OCCU" THEN (IF rec.occupation = None THEN <<>> ELSE <<rec.occupation>>)
    ELSE IF tag = "FAMC" THEN (IF rec.familyChild = None THEN <<>> ELSE <<rec.familyChild>>)
    ELSE [i \in DOMAIN rec.notes |-> rec.notes[i].v]

\* C24: the record saved for the individual holds, for OCCU, FAMC and NOTE, the
\* value of every line with that tag in order of appearance; a later line never
\* replaces an earlier one.
C24_RepeatedTagsAreKept ==
    pc = "parsed" =>
        /\ Len(parser.individuals) = 1
        /\ \A tag \in {"OCCU", "FAMC", "NOTE"} :
              Retained(variant, parser.individuals[1].val, tag)
                  = ValuesOf(parser.lines, tag)

-----------------------------------------------------------------------------
(* Skip specification: texts with lines that do not match and with lines   *)
(* above level 0 before the first record                                    *)

\* what may stand before the first level-0 line
OrphanLines ==
    {NoMatch, Line(1, None, "NAME", "John /Smith/"), Line(2, None, "DATE", "1900")}

\* what may follow the first level-0 line
SkipBodyLines ==
    {NoMatch, Line(1, None, "NAME", "John /Smith/"), Line(1, None, "BIRT", ""),
     Line(2, None, "DATE", "1900"), Line(0, AddAt("I2"), "INDI", "")}

SkipTexts ==
    {orphans \o <<IndiHeader>> \o body :
        orphans \in SeqsUpTo(OrphanLines, MaxOrphans),
        body \in SeqsUpTo(SkipBodyLines, MaxBody)}

NextSkip == (\E lines \in SkipTexts : StartParse(lines)) \/ NextLine \/ FinishParse

SpecSkip == InitLines /\ [][NextSkip]_vars

\* line k does not match, or is above level 0 with no level-0 line before it
Skipped(lines, k) ==
    \/ lines[k].level < 0
    \/ lines[k].level > 0 /\ \A j \in 1..(k - 1) : lines[j].level # 0

\* C25: the iteration of the line loop that reads a line which does not match,
\* or a line above level 0 before any level-0 line, changes nothing of the
\* parser but the position (record stack, current record and stored records
\* stay as they are, and the loop goes on), and the result of the parse equals
\* the result for the text without that line.
C25_SkippedLineChangesNothing ==
    [][/\ (/\ parser.phase = "reading"
           /\ parser.next <= Len(parser.lines)
           /\ Skipped(parser.lines, parser.next))
          => parser' = [parser EXCEPT !.next = parser.next + 1]
       /\ pc' = "parsed"
          => \A k \in DOMAIN parser'.lines :
                 Skipped(parser'.lines, k) =>
                     parsed' = ParseLines(variant, RemoveAt(parser'.lines, k))]_vars

\* a parse is over whose text had a line that does not match inside a record
\* and a line above level 0 before the first record, and gave a named person
C25_Witness ==
    /\ pc = "parsed"
    /\ \E k \in DOMAIN parser.lines :
          /\ parser.lines[k] = NoMatch
          /\ \E j \in 1..(k - 1) : parser.lines[j].level = 0
    /\ parser.lines[1].level > 0
    /\ \E i \in DOMAIN parsed.people : parsed.people[i].name = "John Smith"

-----------------------------------------------------------------------------
(* Siblings of a family without parents, under the Linking specification *)

\* C26: after a file is parsed and loaded, two different persons of the store
\* who are both listed as children of a family that has neither husband nor
\* wife are siblings: getSiblings on one of them returns the other.
C26_ChildrenWithoutParentsAreSiblings ==
    pc = "loaded" =>
        \A f \in DOMAIN store.families :
            (store.families[f].husband = None /\ store.families[f].wife = None) =>
                \A c, d \in Range(store.families[f].children) :
                    (c # d /\ HasPerson(store, c) /\ HasPerson(store, d)) =>
                        Includes(GetSiblings(store, c), d)

-----------------------------------------------------------------------------
(* Events of the result, under the Line specification *)

\* line k is a level-1 BIRT line of the first record
BirthLine(lines, k) ==
    /\ lines[k].level = 1 /\ lines[k].tag = "BIRT"
    /\ \A j \in 2..k : lines[j].level > 0

\* the BIRT line k carries a nested DATE line
CarriesDate(lines, k) ==
    \E j \in (k + 1)..Len(lines) :
        /\ lines[j].level = 2 /\ lines[j].tag = "DATE"
        /\ \A m \in (k + 1)..j : lines[m].level >= 2

\* C27: the person of the first record has a birth event only when the record
\* defines one: a BIRT line without a nested DATE (or PLAC) gives no event, and
\* an event that is present has a date or a place.
C27_EventOnlyWhenDefined ==
    pc = "parsed" =>
        \A i \in PeopleWithId(parsed, AddAt("I1")) :
            /\ parsed.people[i].birth.present =>
                  \E k \in DOMAIN parser.lines :
                      BirthLine(parser.lines, k) /\ CarriesDate(parser.lines, k)
            /\ parsed.people[i].birth.present =>
                  (parsed.people[i].birth.date # None \/ parsed.people[i].birth.place # None)

-----------------------------------------------------------------------------
(* Deep specification: traversals of stores of DagSize persons in which     *)
(* chains of different lengths lead to the same person                      *)

DagOrder == [i \in 1..DagSize |-> ChainId(i)]

\* how far ahead in the order a listed parent stands
Offsets == {1, 2}

\* a loaded store whose persons carry the given parents lists, the children
\* lists their converse
DagStore(lists, up) ==
    LET conv == [p \in Range(DagOrder) |-> ConverseList(lists, DagOrder, p)]
    IN  StoreOf([i \in 1..DagSize |->
                    [NewPerson(ChainId(i), None) EXCEPT
                        !.parents = IF up THEN lists[ChainId(i)] ELSE conv[ChainId(i)],
                        !.children = IF up THEN conv[ChainId(i)] ELSE lists[ChainId(i)]]])

\* parents lists without repetition that lead to the next persons of the order
DagLists ==
    {[p \in Range(DagOrder) |->
         LET i == CHOOSE k \in 1..DagSize : ChainId(k) = p
         IN  [e \in DOMAIN off[i] |-> ChainId(i + off[i][e])]] :
        off \in {o \in [1..DagSize -> NoRepSeqs(Offsets, MaxEdges)] :
                    \A i \in 1..DagSize : \A e \in DOMAIN o[i] : i + o[i][e] <= DagSize}}

DagStores == {DagStore(lists, up) : lists \in DagLists, up \in BOOLEAN}

DeepArgs == {NoArg} \cup {[kind |-> "finite", n |-> k] : k \in 0..MaxDeepArg}

InitDeep ==
    /\ variant = "js"
    /\ store \in DagStores
    /\ file = NoFile
    /\ parser = NoParser
    /\ parsed = NoData
    /\ pc = "query"
    /\ nloads = 0
    /\ FlowIdle
    /\ QueryIdle

NextDeep ==
    \/ \E kind \in {"ancestors", "descendants"}, arg \in DeepArgs :
          CallTraverse(kind, ChainId(1), arg)
    \/ TraverseEnter
    \/ TraverseLoop

SpecDeep == InitDeep /\ [][NextDeep]_vars /\ WF_vars(TraverseStep)

\* C28: a call with bound n (10 when omitted) returns every person of the
\* store that a chain of at most n parent (resp. child) edges through persons
\* of the store reaches from the root, also when chains of different lengths
\* reach a person on the way.
C28_BoundedTraversalIsComplete ==
    (trav.pc = "done" /\ trav.arg.kind # "infinity") =>
        WithinHops(store, trav.kind, {trav.root}, EffectiveMax(trav.arg))
            \subseteq Range(ResultIds(trav))

-----------------------------------------------------------------------------
(* Lines beneath a value-bearing line, under the Line specification *)

\* line k is a level-1 line with a value whose tag opens no sub-record, and the
\* next line stands one level below it
BeneathValue(lines, k) ==
    /\ k + 1 <= Len(lines)
    /\ lines[k].level = 1
    /\ lines[k].tag \in {"SEX", "FAMS", "_MILT"}
    /\ lines[k].value # ""
    /\ lines[k + 1].level = 2

\* C29: a level-2 line that follows a level-1 line with a value (SEX, FAMS, a
\* custom tag) changes nothing of the enclosing record: the result of the
\* parse is the result for the text without that level-2 line.
C29_SubLineOfValueChangesNothing ==
    pc = "parsed" =>
        \A k \in DOMAIN parser.lines :
            BeneathValue(parser.lines, k) =>
                parsed = ParseLines(variant, RemoveAt(parser.lines, k + 1))

-----------------------------------------------------------------------------
(* Reparse specification: one parser instance parses two texts in turn *)

NoteRefLine == Line(1, None, "NOTE", AddAt("N1"))

SharedNote == Line(0, AddAt("N1"), "NOTE", "Shared text")

ReparseTexts ==
    {<<IndiHeader, Line(1, None, "SEX", "M"), NoteRefLine, SharedNote>>,
     <<IndiHeader, NoteRefLine>>,
     <<IndiHeader, Line(1, None, "SEX", "F")>>,
     <<Line(0, AddAt("I2"), "INDI", ""), Line(1, None, "SEX", "F")>>,
     <<IndiHeader>> \o FamilyTail,
     <<Line(0, AddAt("F1"), "FAM", ""), Line(1, None, "CHIL", AddAt("I1"))>>,
     <<Line(0, AddAt("S1"), "SOUR", ""), Line(0, AddAt("M1"), "OBJE", "")>>}

\* parse(content) is called again on the same instance
StartReparse(lines) ==
    /\ pc = "parsed"
    /\ parser.phase = "idle"
    /\ parser' = BeginParse(variant, parser, lines)
    /\ pc' = "reparsing"
    /\ UNCHANGED <<variant, store, file, parsed, nloads, flowVars, queryVars>>

\* the second line loop is over: the last record is saved, the result is built
FinishReparse ==
    /\ pc = "reparsing"
    /\ parser.phase = "reading"
    /\ parser.next > Len(parser.lines)
    /\ parser' = EndParse(variant, parser)
    /\ parsed' = BuildResult(variant, parser')
    /\ pc' = "reparsed"
    /\ UNCHANGED <<variant, store, file, nloads, flowVars, queryVars>>

NextReparse ==
    \/ \E lines \in ReparseTexts : StartParse(lines)
    \/ NextLine
    \/ FinishParse
    \/ \E lines \in ReparseTexts : StartReparse(lines)
    \/ FinishReparse

SpecReparse == InitLines /\ [][NextReparse]_vars

\* C30: what the second parse call on an instance returns is what a new
\* instance returns for the second text: no individual, family, source, media
\* object or note of the first text appears in it or changes its links or its
\* resolved notes.
C30_SecondParseIsIndependent ==
    pc = "reparsed" => parsed = ParseLines(variant, parser.lines)

====
